---- MODULE Spec2Model ----
(***************************************************************************)
(* Model of the colour calibration pipeline of Surround360                 *)
(* (surround360_render/source/calibration/ColorCalibration.cpp).           *)
(*                                                                         *)
(* Conventions                                                             *)
(*  - Point2f coordinates are kept in half pixels (the integer c stands    *)
(*    for the float c/2), so that the Point2f -> Point conversion of       *)
(*    OpenCV (cvRound, round half to even) is visible.                     *)
(*  - Pixel values in [0,1] are exact rationals <<n, d>>, d > 0; a float   *)
(*    that is not finite (x/0) is the pair with d = 0.                     *)
(*  - Geometric primitives of the image library (connected components,     *)
(*    contours, minAreaRect, moments) are inputs: their results are drawn  *)
(*    from bounded menus.                                                  *)
(***************************************************************************)
EXTENDS Integers, Sequences, FiniteSets, TLC

VARIABLES
  pc,                   \* control location of the running operation
  \* ---- sortPatches
  imageSize,            \* [width, height] in pixels
  numSquaresW,
  colorPatchListClean,  \* parameter colorPatchList of sortPatches
  centroids,
  centroidsSorted,
  colorPatchListSorted,
  \* ---- detectColorChart
  numSquaresH,
  stats,                \* label -> statistics of the connected component
  label,                \* loop variable of the component filter
  contours,             \* contours of the last component examined
  isChartFound,
  colorPatchList,       \* patches that passed the contour filter
  outcome,              \* what the operation gave back to its caller
  \* ---- getRgbMedianMask, computeRGBMedians
  configReadable,       \* the ISP configuration file can be read
  image,                \* [rows, cols, px]: px maps <<row, col>> to a value
  isRaw,
  mask,                 \* the pixels at which the mask is not zero
  \* ---- computeRGBResponse, computeColorPatchErrors
  colorPatches,
  rgbLinearMacbeth,     \* the reference chart
  colorResponse,
  imBefore,
  imAfter,
  errorsReturned,       \* what the calls of computeColorPatchErrors returned
  \* ---- the stage wrappers
  ispLog,               \* the calls made on CameraIsp objects, in order
  rgbClampMin,
  rgbClampMax,
  \* ---- debug output
  saveDebugImages,
  outputWritable,       \* files can be written under outputDir
  stepDebugImages,
  \* ---- findBlackLevel
  hists,                \* channel -> histogram of the channel's pixels
  blackLevelThreshold,
  maskThresholds,       \* the threshold each channel's mask was built with
  blackContours,        \* contours of the black hole mask
  contoursFiltered,
  blackLevels,
  minNorm,
  minNormIdx,
  \* ---- computeCCM
  solverCall,           \* the arguments solveLinearRegressionRdToRk got
  solverResult,         \* and what it gave back
  \* ---- parallel_for_
  parCall,              \* the arguments of the call
  parPending,           \* ranges and chunks no thread has taken yet
  parWorkers,           \* thread -> the calls of func it still has to make
  parCalls,             \* the calls of func made so far: [thread, args]
  \* ---- saveBlackLevel, saveXIntercepts
  outputFiles,          \* the text files written so far: [name, text]
  \* ---- the measurement passes of a calibration run
  measured              \* the passes of computeRGBResponse completed so far

sortVars == <<imageSize, numSquaresW, colorPatchListClean, centroids,
              centroidsSorted, colorPatchListSorted>>

detVars == <<numSquaresH, stats, label, contours, isChartFound,
             colorPatchList, outcome>>

medVars == <<configReadable, image, isRaw, mask>>

rspVars == <<colorPatches, rgbLinearMacbeth, colorResponse>>

errVars == <<imBefore, imAfter, errorsReturned>>

ispVars == <<ispLog, rgbClampMin, rgbClampMax>>

\* What detectColorChart and sortPatches never touch.
debugVars == <<saveDebugImages, outputWritable, stepDebugImages>>

blackVars == <<hists, blackLevelThreshold, maskThresholds, blackContours,
               contoursFiltered, blackLevels, minNorm, minNormIdx>>

ccmVars == <<solverCall, solverResult>>

parVars == <<parCall, parPending, parWorkers, parCalls>>

fileVars == <<outputFiles>>

passVars == <<measured>>

extVars == <<blackVars, ccmVars, parVars, fileVars, passVars>>

restVars == <<medVars, rspVars, errVars, ispVars, debugVars, extVars>>

vars == <<pc, sortVars, detVars, restVars>>

-----------------------------------------------------------------------------
(* Bounds of the model *)

MaxPatches == 4   \* patches of a generated chart grid
MaxStep == 2      \* grid pitch, in half pixels
MaxOrigin == 1    \* grid origin, in half pixels
MaxLabels == 2    \* connected components besides the background
MaxContours == 4  \* contours found in one connected component
MaxVal == 1       \* pixel values are 0..MaxVal
MaxChart == 6     \* patches of a chart handed to computeRGBResponse
MaxCalls == 2     \* stage wrappers called in one run
MaxErrPatches == 2   \* patches handed to computeColorPatchErrors, computeCCM
MaxErrorCalls == 2   \* calls of computeColorPatchErrors in one run
MaxBlackContours == 2   \* contours of the black hole mask
MaxThreads == 2      \* threads that run the body of a parallel_for_
MaxIndex == 3        \* largest x_max of a parallel_for_
MaxGrain == 2        \* largest grain size of a parallel_for_
MaxDistance == 3     \* centroids of candidates: 0..MaxDistance half pixels
MaxCandidates == 3   \* longest list of candidates
MaxPasses == 3       \* measurement passes of one calibration run

-----------------------------------------------------------------------------
(* Arithmetic helpers *)

Abs(a) == IF a < 0 THEN -a ELSE a

Min2(a, b) == IF a < b THEN a ELSE b

Max2(a, b) == IF a > b THEN a ELSE b

\* A float that is not a number: every comparison with it is false.
\* A float is <<TRUE, v>> when it is a number and NaN otherwise.
NaN == <<FALSE, 0>>

Finite(v) == <<TRUE, v>>

FloatLess(a, b) == a[1] /\ b[1] /\ a[2] < b[2]

\* The start values Point2f(FLT_MAX, FLT_MAX) and Point2f(-1.0f, FLT_MAX):
\* farther from any reference corner than every point of an image.
FltMaxPoint == <<>>

\* Squared Euclidean norm of p - q (cv::norm is its square root, in double).
NormSq(p, q) ==
  (p[1] - q[1]) * (p[1] - q[1]) + (p[2] - q[2]) * (p[2] - q[2])

\* norm(ref - p) < norm(ref - best)
Closer(ref, p, best) ==
  best = FltMaxPoint \/ NormSq(ref, p) < NormSq(ref, best)

\* cvRound of the float c/2: the nearest integer, halves to the even one.
\* It is what Point(const Point2f&) does to each coordinate.
ToInt(c) ==
  IF c % 2 = 0 THEN c \div 2
  ELSE LET k == (c - 1) \div 2 IN IF k % 2 = 0 THEN k ELSE k + 1

\* All orders in which std::sort may leave the indices S when the keys key[i]
\* are compared with FloatLess: equivalent elements come in any order.
RECURSIVE SortedOrders(_, _)
SortedOrders(S, key) ==
  IF S = {} THEN {<<>>}
  ELSE UNION { { <<m>> \o t : t \in SortedOrders(S \ {m}, key) } :
               m \in { x \in S : \A y \in S : ~FloatLess(key[y], key[x]) } }

\* All orders of the elements of a set.
RECURSIVE Orderings(_)
Orderings(S) ==
  IF S = {} THEN {<<>>}
  ELSE UNION { { <<x>> \o t : t \in Orderings(S \ {x}) } : x \in S }

-----------------------------------------------------------------------------
(* sortPatches and its helpers *)

RECURSIVE NearestTo(_, _, _)
NearestTo(ref, points, best) ==
  IF points = <<>> THEN best
  ELSE NearestTo(ref, Tail(points),
                 IF Closer(ref, Head(points), best) THEN Head(points) ELSE best)

findTopLeft(points) == NearestTo(<<0, 0>>, points, FltMaxPoint)

\* imageWidth is in pixels, the reference corner in half pixels.
findTopRight(points, imageWidth) ==
  NearestTo(<<2 * imageWidth, 0>>, points, FltMaxPoint)

\* fabs(n1 - n2 + n3 - n4) / norm(pLine1 - pLine2). All distances of one sort
\* share the divisor, so a finite distance is kept as its numerator; with
\* pLine1 = pLine2 the numerator is 0 as well and the quotient 0/0 is NaN.
pointToLineDistance(p, pLine1, pLine2) ==
  LET n1 == (pLine2[2] - pLine1[2]) * p[1]
      n2 == (pLine2[1] - pLine1[1]) * p[2]
      n3 == pLine2[1] * pLine1[2]
      n4 == pLine2[2] * pLine1[1]
  IN IF pLine1 = pLine2 THEN NaN ELSE Finite(Abs(n1 - n2 + n3 - n4))

\* A row of one centroid, whatever the width of the chart.
RowLengthOne(w, n) == Min2(1, n)

\* for (i = 0; i < numSquaresW && i < centroids.size(); ++i)
RowLength(w, n) == Min2(w, n)

\* The first patch of the list in the column of c.
FirstInColumn(list, c) ==
  LET S == { i \in DOMAIN list : list[i].centroid[1] = c[1] }
  IN IF S = {} THEN <<>>
     ELSE << list[CHOOSE i \in S : \A j \in S : i <= j] >>

\* The first patch of the list whose centroid equals c, as a 0- or 1-element
\* sequence (the inner loop of the re-ordering).
RECURSIVE FirstWithCentroid(_, _)
FirstWithCentroid(list, c) ==
  IF list = <<>> THEN <<>>
  ELSE IF Head(list).centroid = c THEN <<Head(list)>>
  ELSE FirstWithCentroid(Tail(list), c)

RECURSIVE ReorderPatches(_, _)
ReorderPatches(list, cs) ==
  IF cs = <<>> THEN <<>>
  ELSE FirstWithCentroid(list, Head(cs)) \o ReorderPatches(list, Tail(cs))

CentroidsOf(list) == [i \in DOMAIN list |-> list[i].centroid]

\* One iteration of the row-extraction loop of sortPatches.
SortRow ==
  /\ pc = "sort_loop"
  /\ Len(centroids) > 0
  /\ LET n == Len(centroids)
         pLine1 == findTopLeft(centroids)
         pLine2 == findTopRight(centroids, imageSize.width)
         dist == [i \in 1..n |->
                    pointToLineDistance(centroids[i], pLine1, pLine2)]
     IN \E ord \in SortedOrders(1..n, dist) :
          LET sorted == [k \in 1..n |-> centroids[ord[k]]]
              m == RowLength(numSquaresW, n)
              row == SubSeq(sorted, 1, m)
              xs == [k \in 1..m |-> Finite(ToInt(row[k][1]))]
          IN \E rord \in SortedOrders(1..m, xs) :
               /\ centroidsSorted' =
                    centroidsSorted \o [k \in 1..m |-> row[rord[k]]]
               /\ centroids' = SubSeq(sorted, m + 1, n)
  /\ UNCHANGED <<pc, imageSize, numSquaresW, colorPatchListClean,
                 colorPatchListSorted, detVars, restVars>>

\* The loop has ended: re-order the patches and return.
SortReorder ==
  /\ pc = "sort_loop"
  /\ Len(centroids) = 0
  /\ colorPatchListSorted' = ReorderPatches(colorPatchListClean, centroidsSorted)
  /\ pc' = "sort_done"
  /\ UNCHANGED <<imageSize, numSquaresW, colorPatchListClean, centroids,
                 centroidsSorted, detVars, restVars>>

\* The state of the other operations while they are not the one running.
MedIdle ==
  /\ configReadable = TRUE
  /\ image = [rows |-> 0, cols |-> 0, px |-> <<>>]
  /\ isRaw = FALSE
  /\ mask = {}

RspIdle ==
  /\ colorPatches = <<>>
  /\ rgbLinearMacbeth = <<>>
  /\ colorResponse = <<>>

ErrIdle ==
  /\ imBefore = [rows |-> 0, cols |-> 0, px |-> <<>>]
  /\ imAfter = [rows |-> 0, cols |-> 0, px |-> <<>>]
  /\ errorsReturned = <<>>

IspIdle ==
  /\ ispLog = <<>>
  /\ rgbClampMin = <<>>
  /\ rgbClampMax = <<>>

DebugIdle ==
  /\ saveDebugImages = FALSE
  /\ outputWritable = TRUE
  /\ stepDebugImages = 0

BlackIdle ==
  /\ hists = <<>>
  /\ blackLevelThreshold = 0
  /\ maskThresholds = <<>>
  /\ blackContours = <<>>
  /\ contoursFiltered = <<>>
  /\ blackLevels = <<>>
  /\ minNorm = <<>>
  /\ minNormIdx = 0

CcmIdle ==
  /\ solverCall = <<>>
  /\ solverResult = <<>>

ParIdle ==
  /\ parCall = <<>>
  /\ parPending = {}
  /\ parWorkers = <<>>
  /\ parCalls = <<>>

FilesIdle == outputFiles = <<>>

PassIdle == measured = 0

ExtIdle == BlackIdle /\ CcmIdle /\ ParIdle /\ FilesIdle /\ PassIdle

DetIdle ==
  /\ numSquaresH = 0
  /\ stats = <<>>
  /\ label = 0
  /\ contours = <<>>
  /\ isChartFound = FALSE
  /\ colorPatchList = <<>>
  /\ outcome = [kind |-> "none"]

-----------------------------------------------------------------------------
(* Inputs of sortPatches: regular chart grids, in any order *)

NewPatch(c, m) == [centroid |-> c, mask |-> m, rgbMedian |-> <<0, 0, 0>>]

\* The W x H grid with origin (x0, y0) and pitch (dx, dy), row-major.
GridPatches(w, h, x0, y0, dx, dy) ==
  [k \in 1..(w * h) |->
     LET col == (k - 1) % w
         row == (k - 1) \div w
     IN NewPatch(<<x0 + col * dx, y0 + row * dy>>,
                 [left |-> col, top |-> row, width |-> 1, height |-> 1])]

GridShapes == { s \in (1..MaxPatches) \X (1..MaxPatches) : s[1] * s[2] <= MaxPatches }

\* An image wide and high enough for every generated grid.
GridImageSize ==
  [width |-> MaxOrigin + MaxPatches * MaxStep,
   height |-> MaxOrigin + MaxPatches * MaxStep]

Permuted(list, ord) == [k \in DOMAIN list |-> list[ord[k]]]

InitSort ==
  /\ pc = "sort_loop"
  /\ imageSize = GridImageSize
  /\ \E s \in GridShapes, x0 \in 0..MaxOrigin, y0 \in 0..MaxOrigin,
        dx \in 1..MaxStep, dy \in 1..MaxStep :
       /\ numSquaresW = s[1]
       /\ \E ord \in Orderings(1..(s[1] * s[2])) :
            colorPatchListClean =
              Permuted(GridPatches(s[1], s[2], x0, y0, dx, dy), ord)
  /\ centroids = CentroidsOf(colorPatchListClean)
  /\ centroidsSorted = <<>>
  /\ colorPatchListSorted = <<>>
  /\ DetIdle /\ MedIdle /\ RspIdle /\ ErrIdle /\ IspIdle /\ DebugIdle /\ ExtIdle

NextSort == SortRow \/ SortReorder

SpecSort == InitSort /\ [][NextSort]_vars

-----------------------------------------------------------------------------
(* removeContourOutliers *)

\* Insertion of v into an ascending sequence.
RECURSIVE InsertSorted(_, _)
InsertSorted(v, sorted) ==
  IF sorted = <<>> THEN <<v>>
  ELSE IF v <= Head(sorted) THEN <<v>> \o sorted
  ELSE <<Head(sorted)>> \o InsertSorted(v, Tail(sorted))

\* The ascending arrangement of the values of a sequence (std::sort on floats).
RECURSIVE SortValues(_)
SortValues(seq) ==
  IF seq = <<>> THEN <<>> ELSE InsertSorted(Head(seq), SortValues(Tail(seq)))

MinOfSet(S) == CHOOSE m \in S : \A x \in S : m <= x

\* minDistances[iPatch], squared, in half pixels; lists of 2 and more patches.
MinDistanceSq(list, i) ==
  MinOfSet({ NormSq(list[i].centroid, list[j].centroid) :
             j \in DOMAIN list \ {i} })

\* minDistancesSorted[minDistancesSorted.size() / 2], squared.
MinDistanceMedianSq(list) ==
  SortValues([i \in DOMAIN list |-> MinDistanceSq(list, i)])[Len(list) \div 2 + 1]

\* A threshold at the median itself.
WithinMedian(list, i) ==
  IF Len(list) = 1 THEN TRUE
  ELSE MinDistanceSq(list, i) < MinDistanceMedianSq(list)

\* minDistances[iPatch] < 2.0f * minDistanceMedian. A single patch keeps its
\* FLT_MAX, and 2.0f * FLT_MAX is +inf.
WithinThreshold(list, i) ==
  IF Len(list) = 1 THEN TRUE
  ELSE MinDistanceSq(list, i) < 4 * MinDistanceMedianSq(list)

RECURSIVE KeepFrom(_, _)
KeepFrom(list, i) ==
  IF i > Len(list) THEN <<>>
  ELSE (IF WithinThreshold(list, i) THEN <<list[i]>> ELSE <<>>)
       \o KeepFrom(list, i + 1)

removeContourOutliers(list) == KeepFrom(list, 1)

-----------------------------------------------------------------------------
(* Inputs of detectColorChart: a 100 x 100 image *)

DetectImageSize == [width |-> 100, height |-> 100]

Stat(a, l, t, w, h, n) ==
  [area |-> a, left |-> l, top |-> t, width |-> w, height |-> h,
   numContours |-> n]

\* Components that never reach findContours: too few pixels, off centre,
\* too large; and components that do, with the number of their contours.
LabelMenu ==
  { Stat(50, 40, 40, 20, 20, 0),
    Stat(1000, 0, 20, 40, 60, 0),
    Stat(3000, 10, 10, 80, 80, 0) }
  \cup { Stat(2000, 20, 20, 60, 60, n) : n \in 0..MaxContours }

Cont(cx, cy, m, n, w, h, cv) ==
  [center |-> <<cx, cy>>, m00x10 |-> m, size |-> n, width10 |-> w,
   height10 |-> h, convex |-> cv,
   rect |-> [left |-> (cx - w \div 10) \div 2, top |-> (cy - h \div 10) \div 2,
             width |-> w \div 10 + 1, height |-> h \div 10 + 1]]

\* What findContours can find in a component: the four squares of a 2 x 2
\* chart, a square far away, a speck, a pentagon, two elongated quadrilaterals
\* and a quadrilateral that is not convex.
ContourMenu ==
  << Cont(100, 61, 5, 2, 0, 12, TRUE),
     Cont(180, 180, 360, 4, 60, 60, TRUE),
     Cont(80, 80, 360, 4, 60, 60, TRUE),
     Cont(80, 60, 365, 4, 60, 65, TRUE),
     Cont(60, 60, 360, 4, 65, 60, TRUE),
     Cont(60, 80, 360, 4, 60, 60, TRUE),
     Cont(120, 60, 300, 5, 60, 60, TRUE),
     Cont(100, 80, 240, 4, 40, 60, TRUE),
     Cont(120, 80, 180, 4, 30, 60, TRUE),
     Cont(100, 100, 200, 4, 60, 60, FALSE) >>

\* The results findContours can have with n contours: n contours in a row of
\* the menu.
ContourLists(n) ==
  { SubSeq(ContourMenu, a, a + n - 1) : a \in 1..(Len(ContourMenu) - n + 1) }

\* The background component: as large as the image, or a hole around the
\* image centre.
BackgroundMenu ==
  { Stat(7000, 0, 0, 100, 100, 0), Stat(2000, 20, 20, 60, 60, MaxContours) }

SquaresMenu == { <<1, 1>>, <<2, 1>>, <<2, 2>> }

-----------------------------------------------------------------------------
(* detectColorChart, from the connected components on *)

imSize == imageSize.width * imageSize.height

center == <<imageSize.width \div 2, imageSize.height \div 2>>

\* numPixels < minNumPixels, minNumPixels = 0.01f * imSize
TooFewPixels(st) == 100 * st.area < imSize

\* Assuming chart is centered, kFracErrorX = 0.10f
OffCenter(st) ==
  \/ 10 * st.left > 11 * center[1]
  \/ st.top > center[2]
  \/ 10 * (st.left + st.width) < 9 * center[1]
  \/ st.top + st.height < center[2]

\* width * height > maxAreaChart, maxAreaChart = 0.4f * imSize
TooLarge(st) == 10 * st.width * st.height > 4 * imSize

\* The component reaches findContours.
PassesStats(st) == ~TooFewPixels(st) /\ ~OffCenter(st) /\ ~TooLarge(st)

\* contours.size() >= numSquaresW * numSquaresH
EnoughContours(n) == n >= numSquaresW * numSquaresH

\* for (int label = 1; ...): the background, label 0, is left out.
FirstLabel == 1

NextLabelSkipping(l) == l + 2

\* ++label
NextLabel(l) == l + 1

kNumEdges == 4

\* const int area = mu.m00 (m00 is kept in tenths of a pixel)
ContourArea(c) == c.m00x10 \div 10

\* const int width = boundingBox.size.width (kept in tenths of a pixel)
RectWidth(c) == c.width10 \div 10

RectHeight(c) == c.height10 \div 10

\* const int aspectRatio = 1.0f * max(width, height) / (1.0f * min(width, height))
\* The conversion of a float that is not finite (min = 0) to int is undefined:
\* any int may come out.
AspectRatios(c) ==
  LET lo == Min2(RectWidth(c), RectHeight(c))
      hi == Max2(RectWidth(c), RectHeight(c))
  IN IF lo = 0 THEN {-2147483647 - 1, 0, 2147483647} ELSE {hi \div lo}

\* area < minArea || area > maxArea, 0.01% and 0.45% of the image size
AreaOutOfRange(c) ==
  \/ 10000 * ContourArea(c) < imSize
  \/ 10000 * ContourArea(c) > 45 * imSize

\* aspectRatio > kMaxAspectRatio, kMaxAspectRatio = 1.2f, aspectRatio an int
TooElongated(aspectRatio) == 10 * aspectRatio > 12

\* The contour becomes a patch.
KeepContour(c, aspectRatio) ==
  /\ ~AreaOutOfRange(c)
  /\ c.size = kNumEdges
  /\ ~TooElongated(aspectRatio)
  /\ c.convex

\* centroid = boundingBox.center, mask = the filled boundingRect(cont)
PatchOf(c) == NewPatch(c.center, c.rect)

RECURSIVE FilterFrom(_, _, _)
FilterFrom(conts, asp, i) ==
  IF i > Len(conts) THEN <<>>
  ELSE (IF KeepContour(conts[i], asp[i]) THEN <<PatchOf(conts[i])>> ELSE <<>>)
       \o FilterFrom(conts, asp, i + 1)

\* One iteration of the loop over the labels of the connected components.
\* findContours runs on the component only when its statistics pass.
LabelStep ==
  /\ pc = "labels"
  /\ label \in DOMAIN stats
  /\ IF PassesStats(stats[label])
     THEN \E found \in ContourLists(stats[label].numContours) :
            /\ contours' = found
            /\ IF EnoughContours(Len(found))
               THEN isChartFound' = TRUE /\ pc' = "filter" /\ label' = label
               ELSE isChartFound' = FALSE /\ pc' = "labels" /\ label' = NextLabel(label)
     ELSE /\ label' = NextLabel(label)
          /\ UNCHANGED <<contours, isChartFound, pc>>
  /\ UNCHANGED <<sortVars, numSquaresH, stats, colorPatchList, outcome,
                 restVars>>

\* The loop ended without a chart: throw VrCamException("No chart found").
ChartNotFound ==
  /\ pc = "labels"
  /\ label \notin DOMAIN stats
  /\ ~isChartFound
  /\ outcome' = [kind |-> "exception", what |-> "No chart found"]
  /\ pc' = "done"
  /\ UNCHANGED <<sortVars, numSquaresH, stats, label, contours, isChartFound,
                 colorPatchList, restVars>>

\* The loop over the contours of the accepted component, and the early return
\* of an empty list.
FilterContours ==
  /\ pc = "filter"
  /\ \E asp \in [DOMAIN contours ->
                    UNION { AspectRatios(contours[i]) : i \in DOMAIN contours }] :
       /\ \A i \in DOMAIN contours : asp[i] \in AspectRatios(contours[i])
       /\ colorPatchList' = FilterFrom(contours, asp, 1)
  /\ IF Len(colorPatchList') = 0
     THEN /\ outcome' = [kind |-> "returned", patches |-> colorPatchList']
          /\ pc' = "done"
     ELSE /\ pc' = "outliers"
          /\ UNCHANGED outcome
  /\ UNCHANGED <<sortVars, numSquaresH, stats, label, contours, isChartFound,
                 restVars>>

\* removeContourOutliers, and the call of sortPatches on its result.
RemoveOutliers ==
  /\ pc = "outliers"
  /\ colorPatchListClean' = removeContourOutliers(colorPatchList)
  /\ centroids' = CentroidsOf(colorPatchListClean')
  /\ centroidsSorted' = <<>>
  /\ pc' = "sort_loop"
  /\ UNCHANGED <<imageSize, numSquaresW, colorPatchListSorted, detVars, restVars>>

\* sortPatches has returned: detectColorChart returns the sorted list.
DetectReturn ==
  /\ pc = "sort_done"
  /\ outcome' = [kind |-> "returned", patches |-> colorPatchListSorted]
  /\ pc' = "done"
  /\ UNCHANGED <<sortVars, numSquaresH, stats, label, contours, isChartFound,
                 colorPatchList, restVars>>

-----------------------------------------------------------------------------
(* The specification of detectColorChart *)

\* The state of sortPatches before detectColorChart calls it.
SortIdle ==
  /\ colorPatchListClean = <<>>
  /\ centroids = <<>>
  /\ centroidsSorted = <<>>
  /\ colorPatchListSorted = <<>>

Init ==
  /\ pc = "labels"
  /\ imageSize = DetectImageSize
  /\ \E sq \in SquaresMenu : numSquaresW = sq[1] /\ numSquaresH = sq[2]
  /\ \E la \in 1..(MaxLabels + 1) :
       stats \in { st \in [0..(la - 1) -> LabelMenu \cup BackgroundMenu] :
                   /\ st[0] \in BackgroundMenu
                   /\ \A l \in 1..(la - 1) : st[l] \in LabelMenu }
  /\ label = FirstLabel
  /\ contours = <<>>
  /\ isChartFound = FALSE
  /\ colorPatchList = <<>>
  /\ outcome = [kind |-> "none"]
  /\ SortIdle /\ MedIdle /\ RspIdle /\ ErrIdle /\ IspIdle /\ DebugIdle /\ ExtIdle

Next ==
  \/ LabelStep
  \/ ChartNotFound
  \/ FilterContours
  \/ RemoveOutliers
  \/ SortRow
  \/ SortReorder
  \/ DetectReturn

Spec == Init /\ [][Next]_vars

-----------------------------------------------------------------------------
(* Claims about sortPatches *)

\* Row-major order of centroids: by increasing y, and by increasing x inside
\* a row.
RowMajorBefore(p, q) == p[2] < q[2] \/ (p[2] = q[2] /\ p[1] < q[1])

IsRowMajor(list) ==
  \A i, j \in DOMAIN list :
    i < j => RowMajorBefore(list[i].centroid, list[j].centroid)

\* C3: sortPatches returns the patches of a regular W x H grid, given in any
\* order, all of them and in row-major order (rows by increasing y, each row by
\* increasing x).
C3_GridRowMajor ==
  pc = "sort_done" =>
    /\ Len(colorPatchListSorted) = Len(colorPatchListClean)
    /\ IsRowMajor(colorPatchListSorted)

-----------------------------------------------------------------------------
(* Claims about detectColorChart *)

\* The component passes the size, centring and contour-count tests.
Passing(l) ==
  PassesStats(stats[l]) /\ EnoughContours(stats[l].numContours)

Candidates == DOMAIN stats \ {0}

C2_NeverShortList ==
  (pc = "done" /\ outcome.kind = "returned") =>
    Len(outcome.patches) >= numSquaresW * numSquaresH

-----------------------------------------------------------------------------
(* getRgbMedianMask *)

\* The colour filter array of the sensor, as CameraIsp classifies a pixel:
\* an RGGB mosaic.
redPixel(r, c) == r % 2 = 0 /\ c % 2 = 0

greenPixel(r, c) == (r + c) % 2 = 1

\* cameraIsp.redPixel(p.y, p.x) ? 0 : (cameraIsp.greenPixel(p.y, p.x) ? 1 : 2),
\* counted from 1
ChannelOf(p) ==
  IF redPixel(p[1], p[2]) THEN 1 ELSE IF greenPixel(p[1], p[2]) THEN 2 ELSE 3

Channels == 1..3

\* The pixels of an image, row by row.
RowMajor(img) ==
  [k \in 1..(img.rows * img.cols) |->
     <<(k - 1) \div img.cols, (k - 1) % img.cols>>]

\* findNonZero(mask, locs)
Locs(img, m) ==
  LET InMask(p) == p \in m IN SelectSeq(RowMajor(img), InMask)

\* RGBs[ch] after the loop over the mask: a raw pixel goes to the list of its
\* own channel, a demosaiced pixel to all three.
Bucket(img, m, raw, ch) ==
  LET locs == Locs(img, m)
      OfChannel(p) == ChannelOf(p) = ch
      mine == IF raw THEN SelectSeq(locs, OfChannel) ELSE locs
  IN [k \in DOMAIN mine |->
        IF raw THEN img.px[mine[k]] ELSE img.px[mine[k]][ch]]

LowerMedianIndex(n) == (n - 1) \div 2

\* RGBs[ch].size() / 2
MedianIndex(n) == n \div 2

\* std::nth_element(begin, nth, end): afterwards the element at nth is the one
\* a full sort would put there, none before it is greater, none after smaller.
NthElement(bucket, nth) == SortValues(bucket)

\* rgbMedian[ch] for a list that is not empty (index counted from 0)
ChannelMedian(bucket) ==
  NthElement(bucket, MedianIndex(Len(bucket)))[MedianIndex(Len(bucket)) + 1]

Returned(v) == [kind |-> "returned", value |-> v]

\* What an out-of-bounds read of a float may give: zero, or another value.
Garbage == {0 - 1, 0}

\* The results getRgbMedianMask can have. An empty list is indexed at 0, beyond
\* its end: undefined behaviour, the process may die or go on with any value.
MedianOutcomes(img, m, raw) ==
  LET b == [ch \in Channels |-> Bucket(img, m, raw, ch)]
  IN IF \A ch \in Channels : Len(b[ch]) > 0
     THEN { Returned([ch \in Channels |-> ChannelMedian(b[ch])]) }
     ELSE { [kind |-> "crash"] } \cup
          { Returned(v) : v \in { w \in [Channels -> Garbage] :
              \A ch \in Channels : Len(b[ch]) > 0 => w[ch] = ChannelMedian(b[ch]) } }

\* getJson(ispConfigFile)
FileReadFailed == [kind |-> "exception", what |-> "file read failed"]

\* imwriteExceptionOnFail on a file that cannot be written
WriteFailed == [kind |-> "exception", what |-> "file write failed"]

\* One call of getRgbMedianMask(image, mask, ispConfigFile, isRaw).
GetRgbMedianMask ==
  /\ pc = "median"
  /\ IF configReadable
     THEN \E res \in MedianOutcomes(image, mask, isRaw) : outcome' = res
     ELSE outcome' = FileReadFailed
  /\ pc' = "done"
  /\ UNCHANGED <<sortVars, numSquaresH, stats, label, contours, isChartFound,
                 colorPatchList, restVars>>

\* Inputs: a 2 x 3 image, raw or demosaiced, and any mask on it.
MedianImageDims == [rows |-> 2, cols |-> 3]

Vals == 0..MaxVal

Pixels(dims) == (0..(dims.rows - 1)) \X (0..(dims.cols - 1))

\* A demosaiced pixel: three channels with different values.
RgbOf(v) == <<v, MaxVal - v, (v + 1) % (MaxVal + 1)>>

ImagesOf(dims, raw) ==
  { [rows |-> dims.rows, cols |-> dims.cols,
     px |-> [p \in Pixels(dims) |-> IF raw THEN f[p] ELSE RgbOf(f[p])]] :
    f \in [Pixels(dims) -> Vals] }

InitMedian ==
  /\ pc = "median"
  /\ configReadable \in BOOLEAN
  /\ isRaw \in BOOLEAN
  /\ image \in ImagesOf(MedianImageDims, isRaw)
  /\ mask \in SUBSET Pixels(MedianImageDims)
  /\ imageSize = [width |-> MedianImageDims.cols, height |-> MedianImageDims.rows]
  /\ numSquaresW = 0
  /\ SortIdle /\ DetIdle /\ RspIdle /\ ErrIdle /\ IspIdle /\ DebugIdle /\ ExtIdle

NextMedian == GetRgbMedianMask

SpecMedian == InitMedian /\ [][NextMedian]_vars

-----------------------------------------------------------------------------
(* Claims about getRgbMedianMask *)

\* The number of places of the bucket that hold a value of the set S.
CountIn(bucket, S) == Cardinality({ i \in DOMAIN bucket : bucket[i] \in S })

ValuesOf(bucket) == { bucket[i] : i \in DOMAIN bucket }

\* v is the order statistic of the bucket at index k, counted from 0.
IsOrderStatistic(bucket, k, v) ==
  LET Below == { x \in ValuesOf(bucket) : x < v }
      NotAbove == { x \in ValuesOf(bucket) : x <= v }
  IN /\ \E i \in DOMAIN bucket : bucket[i] = v
     /\ CountIn(bucket, Below) <= k
     /\ CountIn(bucket, NotAbove) >= k + 1

\* Fewer than half of the values of the bucket differ from u.
MostlyEqualTo(bucket, u) ==
  LET Other == ValuesOf(bucket) \ {u}
  IN 2 * CountIn(bucket, Other) < Len(bucket)

\* C4: for every channel whose bucket holds n >= 1 values the result is the
\* order statistic at index floor(n/2) of the sorted bucket; so a bucket with
\* fewer than half of its values replaced by outliers still gives the value v
\* of the others, and a bucket of copies of v gives v.
C4_MedianOrderStatistic ==
  (pc = "done" /\ outcome.kind = "returned") =>
    \A ch \in Channels :
      LET b == Bucket(image, mask, isRaw, ch)
      IN Len(b) >= 1 =>
           /\ IsOrderStatistic(b, Len(b) \div 2, outcome.value[ch])
           /\ \A u \in Vals : MostlyEqualTo(b, u) => outcome.value[ch] = u

\* A bucket of four values, one of them an outlier, gave the value of the
\* other three.
C4_Witness ==
  /\ pc = "done"
  /\ outcome.kind = "returned"
  /\ \E ch \in Channels :
       LET b == Bucket(image, mask, isRaw, ch)
           Other == ValuesOf(b) \ {outcome.value[ch]}
       IN Len(b) = 4 /\ CountIn(b, Other) = 1

SomeBucketEmpty ==
  \E ch \in Channels : Len(Bucket(image, mask, isRaw, ch)) = 0

\* C5: when the mask yields no pixel for some channel, getRgbMedianMask ends
\* in an empty-patch-statistics error; it returns no vector.
C5_EmptyBucketIsError ==
  (pc = "done" /\ configReadable /\ SomeBucketEmpty) =>
    /\ outcome.kind = "exception"
    /\ outcome.what = "empty patch statistics"

-----------------------------------------------------------------------------
(* Exact arithmetic on floats: <<n, d>> is n/d, d > 0, in lowest terms;      *)
(* NonFinite stands for every float that is not finite (x/0).               *)

RECURSIVE GCD(_, _)
GCD(a, b) == IF b = 0 THEN a ELSE GCD(b, a % b)

NonFinite == <<0, 0>>

IsFinite(a) == a[2] # 0

Rat(n, d) ==
  IF d = 0 THEN NonFinite
  ELSE LET g == GCD(Abs(n), Abs(d))
           sgn == IF (n < 0) = (d < 0) THEN 1 ELSE 0 - 1
       IN <<sgn * (Abs(n) \div g), Abs(d) \div g>>

RAdd(a, b) ==
  IF IsFinite(a) /\ IsFinite(b)
  THEN Rat(a[1] * b[2] + b[1] * a[2], a[2] * b[2]) ELSE NonFinite

RNeg(a) == IF IsFinite(a) THEN <<0 - a[1], a[2]>> ELSE NonFinite

RSub(a, b) == RAdd(a, RNeg(b))

RMul(a, b) ==
  IF IsFinite(a) /\ IsFinite(b) THEN Rat(a[1] * b[1], a[2] * b[2]) ELSE NonFinite

RDiv(a, b) ==
  IF IsFinite(a) /\ IsFinite(b) THEN Rat(a[1] * b[2], a[2] * b[1]) ELSE NonFinite

RLess(a, b) == IsFinite(a) /\ IsFinite(b) /\ a[1] * b[2] < b[1] * a[2]

ROne == <<1, 1>>

RZero == <<0, 1>>

-----------------------------------------------------------------------------
(* computeRGBMedians, getMacBethGrays, computeRGBResponse *)

\* The pixels at which the mask of a patch, a filled rectangle, is not zero.
MaskPixels(rect) ==
  (rect.top..(rect.top + rect.height - 1))
    \X (rect.left..(rect.left + rect.width - 1))

kNumGrayPatches == 5

\* for (i = iStart; i >= iStart - kNumGrayPatches; --i)
\*   push_back(rgbLinearMacbeth[i][0])
getMacBethGrays(table) ==
  [k \in 1..(kNumGrayPatches + 1) |-> table[Len(table) - k + 1][1]]

kDarkIdx == 1

kBrightIdx == 4

\* colorPatches[iStart - kDarkIdx], iStart = colorPatches.size() - 1,
\* as an index counted from 0
DarkPatchIndex(n) == (n - 1) - kDarkIdx

BrightPatchIndexNext(n) == (n - 1) - (kBrightIdx - 1)

\* colorPatches[iStart - kBrightIdx]
BrightPatchIndex(n) == (n - 1) - kBrightIdx

\* float(macBethGrayValues[k]) / 255.0f
GrayX(grays, k) == Rat(grays[k + 1], 255)

FitChannelSignSlip(xDark, yDark, xBright, yBright) ==
  LET slope == RDiv(RSub(yBright, yDark), RSub(xBright, xDark))
      interceptY == RAdd(RMul(slope, xDark), yDark)
  IN [slope |-> slope,
      interceptY |-> interceptY,
      interceptXMin |-> RDiv(RNeg(interceptY), slope),
      interceptXMax |-> RDiv(RSub(ROne, interceptY), slope)]

\* The body of the loop over the channels: the response y = mx + b.
FitChannel(xDark, yDark, xBright, yBright) ==
  LET slope == RDiv(RSub(yBright, yDark), RSub(xBright, xDark))
      interceptY == RAdd(RMul(RNeg(slope), xDark), yDark)
  IN [slope |-> slope,
      interceptY |-> interceptY,
      interceptXMin |-> RDiv(RNeg(interceptY), slope),
      interceptXMax |-> RDiv(RSub(ROne, interceptY), slope)]

\* A pixel level k of the images of this operation is the float k/4.
Quarter(k) == Rat(k, 4)

\* The results the calls of getRgbMedianMask on the patches i.. can have.
RECURSIVE MedianResults(_, _, _, _)
MedianResults(patches, img, raw, i) ==
  IF i > Len(patches) THEN {<<>>}
  ELSE { <<r>> \o t :
           r \in MedianOutcomes(img, MaskPixels(patches[i].mask), raw),
           t \in MedianResults(patches, img, raw, i + 1) }

\* A measurement that also shrinks the mask to its first column.
WithMedianAndMask(patch, v) ==
  [patch EXCEPT !.rgbMedian = v, !.mask = [@ EXCEPT !.width = 1]]

\* colorPatches[i].rgbMedian = getRgbMedianMask(...)
WithMedian(patch, v) == [patch EXCEPT !.rgbMedian = v]

\* computeRGBMedians: every patch gets the median of the image under its mask.
\* The first call of getRgbMedianMask throws when the configuration cannot be
\* read; a call that dies ends the process.
ComputeRGBMedians ==
  /\ pc = "medians"
  /\ IF ~configReadable /\ Len(colorPatches) > 0
     THEN outcome' = FileReadFailed /\ pc' = "done" /\ UNCHANGED colorPatches
     ELSE \E res \in MedianResults(colorPatches, image, isRaw, 1) :
            IF \E i \in DOMAIN colorPatches : res[i].kind = "crash"
            THEN /\ outcome' = [kind |-> "crash"]
                 /\ pc' = "done"
                 /\ UNCHANGED colorPatches
            ELSE /\ colorPatches' =
                      [i \in DOMAIN colorPatches |->
                         WithMedian(colorPatches[i], res[i].value)]
                 /\ pc' = "fit"
                 /\ UNCHANGED outcome
  /\ UNCHANGED <<sortVars, numSquaresH, stats, label, contours, isChartFound,
                 colorPatchList, medVars, rgbLinearMacbeth, colorResponse,
                 errVars, ispVars, debugVars, extVars>>

\* plotGrayPatchResponse, called when saveDebugImages is set: the medians are
\* computed once more on a copy of the patches, the pixels of the patches
\* iStart .. iStart - kNumGreyPatches are plotted, and the plot is written.
\* With fewer than 6 patches the loop reads colorPatchesPlot[-1].
kNumGreyPatches == 5

PlotOutcomes(patches, img, raw, writable) ==
  LET medians == MedianResults(patches, img, raw, 1)
      dies == \/ \E res \in medians :
                   \E i \in DOMAIN patches : res[i].kind = "crash"
              \/ (Len(patches) - 1) - kNumGreyPatches < 0
      goesOn == \E res \in medians :
                  \A i \in DOMAIN patches : res[i].kind # "crash"
  IN (IF dies THEN { [kind |-> "crash"] } ELSE {}) \cup
     (IF goesOn
      THEN { IF writable THEN [kind |-> "plotted"] ELSE WriteFailed }
      ELSE {})

\* What computeRGBResponse gives its caller once the response is fitted.
FitOutcomes(response, patches, img, raw, debug, writable) ==
  IF debug
  THEN { IF o.kind = "plotted" THEN Returned(response) ELSE o :
           o \in PlotOutcomes(patches, img, raw, writable) }
  ELSE { Returned(response) }

\* The rest of computeRGBResponse: the line between two gray patches.
FitResponse ==
  /\ pc = "fit"
  /\ LET n == Len(colorPatches)
         grays == getMacBethGrays(rgbLinearMacbeth)
         xDark == GrayX(grays, kDarkIdx)
         xBright == GrayX(grays, kBrightIdx)
         yDark == colorPatches[DarkPatchIndex(n) + 1].rgbMedian
         yBright == colorPatches[BrightPatchIndex(n) + 1].rgbMedian
         fit == [ch \in Channels |->
                   FitChannel(xDark, Quarter(yDark[ch]),
                              xBright, Quarter(yBright[ch]))]
     IN colorResponse' =
          [rgbSlope |-> [ch \in Channels |-> fit[ch].slope],
           rgbInterceptY |-> [ch \in Channels |-> fit[ch].interceptY],
           rgbInterceptXMin |-> [ch \in Channels |-> fit[ch].interceptXMin],
           rgbInterceptXMax |-> [ch \in Channels |-> fit[ch].interceptXMax]]
  /\ outcome' \in FitOutcomes(colorResponse', colorPatches, image, isRaw,
                             saveDebugImages, outputWritable)
  /\ stepDebugImages' =
       IF saveDebugImages /\ outcome'.kind # "crash"
       THEN stepDebugImages + 1 ELSE stepDebugImages
  /\ pc' = "done"
  /\ UNCHANGED <<sortVars, numSquaresH, stats, label, contours, isChartFound,
                 colorPatchList, medVars, colorPatches, rgbLinearMacbeth,
                 errVars, ispVars, saveDebugImages, outputWritable, extVars>>

-----------------------------------------------------------------------------
(* Inputs of computeRGBResponse *)

\* The reference chart: 24 rows of 3 integers in 0..255, the last 6 a neutral
\* gray ramp from the brightest to the darkest.
ColourRow(i) == <<(i * 37) % 256, (i * 59) % 256, (i * 83) % 256>>

ChartWithRamp(ramp) ==
  [i \in 1..24 |-> IF i <= 18 THEN ColourRow(i)
                   ELSE <<ramp[i - 18], ramp[i - 18], ramp[i - 18]>>]

ReferenceCharts ==
  { ChartWithRamp(<<243, 200, 160, 122, 85, 52>>),
    ChartWithRamp(<<255, 204, 153, 102, 51, 0>>) }

Levels == 0..4

\* The level of a patch of gray level v as channel ch sees it.
ChannelLevel(v, ch) ==
  IF ch = 1 THEN v ELSE IF ch = 2 THEN Min2(v + 1, 4) ELSE Max2(v - 1, 0)

\* Patch i of a chart covers the 2 x 2 block of columns 2i-2 and 2i-1; the
\* last patch is one column wide when narrow.
ChartPatches(n, narrow) ==
  [i \in 1..n |->
     NewPatch(<<4 * i - 2, 2>>,
              [left |-> 2 * (i - 1), top |-> 0,
               width |-> IF narrow /\ i = n THEN 1 ELSE 2, height |-> 2])]

\* The image of a chart whose patch i has the gray level lv[i].
ChartImage(lv, raw) ==
  [rows |-> 2, cols |-> 2 * Len(lv),
   px |-> [p \in (0..1) \X (0..(2 * Len(lv) - 1)) |->
             LET v == lv[p[2] \div 2 + 1]
             IN IF raw THEN ChannelLevel(v, ChannelOf(p))
                ELSE [ch \in Channels |-> ChannelLevel(v, ch)]]]

\* Gray levels of the patches of a chart: the last 5 patches, the gray ramp,
\* do not get brighter towards the end; the patches before them have one of
\* two levels.
RampLevels(n) ==
  { lv \in [1..n -> Levels] :
      /\ \A i \in (n - 4)..(n - 1) : lv[i] >= lv[i + 1]
      /\ \A i \in 1..(n - 5) : lv[i] \in {1, 3} }

InitResponse ==
  /\ pc = "medians"
  /\ configReadable \in BOOLEAN
  /\ isRaw \in BOOLEAN
  /\ rgbLinearMacbeth \in ReferenceCharts
  /\ \E n \in 5..MaxChart, narrow \in BOOLEAN :
       /\ colorPatches = ChartPatches(n, narrow)
       /\ \E lv \in RampLevels(n) : image = ChartImage(lv, isRaw)
  /\ mask = {}
  /\ colorResponse = <<>>
  /\ imageSize = [width |-> image.cols, height |-> image.rows]
  /\ numSquaresW = 0
  /\ saveDebugImages \in BOOLEAN
  /\ outputWritable \in BOOLEAN
  /\ ~saveDebugImages => outputWritable
  /\ stepDebugImages = 0
  /\ SortIdle /\ DetIdle /\ ErrIdle /\ IspIdle /\ ExtIdle

NextResponse == ComputeRGBMedians \/ FitResponse

SpecResponse == InitResponse /\ [][NextResponse]_vars

-----------------------------------------------------------------------------
(* Claims about computeRGBResponse *)

ResponseReturned == pc = "done" /\ outcome = Returned(colorResponse)

\* The patch k places before the last one, its measured value in channel ch
\* and the reflectance of its cell of the reference chart.
MeasuredY(k, ch) == Quarter(colorPatches[Len(colorPatches) - k].rgbMedian[ch])

ReferenceGray(k) == rgbLinearMacbeth[Len(rgbLinearMacbeth) - k][1]

ReferenceX(k) == Rat(ReferenceGray(k), 255)

\* The fitted line of channel ch goes through (x, y).
OnLine(ch, x, y) ==
  RAdd(RMul(colorResponse.rgbSlope[ch], x), colorResponse.rgbInterceptY[ch]) = y

ThroughPatch(k) ==
  \A ch \in Channels : OnLine(ch, ReferenceX(k), MeasuredY(k, ch))

\* The place, counted back from the last patch, of the patch of the last 5
\* that has exactly r brighter ones among the last 5.
LastFive == 0..4

PlaceWithBrighter(r) ==
  CHOOSE k \in LastFive :
    Cardinality({ j \in LastFive : ReferenceGray(j) > ReferenceGray(k) }) = r

\* C6 as amended: the dark fit point is the second-darkest of the last 5
\* patches and the bright fit point is the brightest of the last 5 patches
\* (patch n-5, the second-brightest of the 6 patches of the gray ramp); the
\* darkest patch is not a fit point.
C6_FitPointsOfLastFive ==
  ResponseReturned =>
    /\ ThroughPatch(PlaceWithBrighter(3))
    /\ ThroughPatch(PlaceWithBrighter(0))
    /\ PlaceWithBrighter(4) = 0

\* The three patches in question measure differently, so the line tells them
\* apart.
C6_Witness ==
  /\ ResponseReturned
  /\ Len(colorPatches) > 5
  /\ \A ch \in Channels :
       /\ RLess(MeasuredY(1, ch), MeasuredY(3, ch))
       /\ RLess(MeasuredY(3, ch), MeasuredY(4, ch))

\* C6 as stated: the bright fit point is the second-brightest of the last 5
\* patches, and neither the darkest nor the brightest of them is a fit point.
C6_Original ==
  ResponseReturned =>
    /\ ThroughPatch(PlaceWithBrighter(3))
    /\ ThroughPatch(PlaceWithBrighter(1))

\* The two points computeRGBResponse fits channel ch to.
DarkX == GrayX(getMacBethGrays(rgbLinearMacbeth), kDarkIdx)

BrightX == GrayX(getMacBethGrays(rgbLinearMacbeth), kBrightIdx)

DarkY(ch) ==
  Quarter(colorPatches[DarkPatchIndex(Len(colorPatches)) + 1].rgbMedian[ch])

BrightY(ch) ==
  Quarter(colorPatches[BrightPatchIndex(Len(colorPatches)) + 1].rgbMedian[ch])

\* C7: with xDark # xBright and yDark # yBright the response is the line
\* through both points, slope * x + interceptY = y, with y = 0 at xDomainMin
\* and y = 1 at xDomainMax; the points (0.2, 0.25) and (0.8, 0.75) give slope
\* 5/6, interceptY 1/12, xDomainMin -1/10 and xDomainMax 11/10.
C7_LineThroughBothPoints ==
  ResponseReturned =>
    \A ch \in Channels :
      (DarkX # BrightX /\ DarkY(ch) # BrightY(ch)) =>
        /\ OnLine(ch, DarkX, DarkY(ch))
        /\ OnLine(ch, BrightX, BrightY(ch))
        /\ OnLine(ch, colorResponse.rgbInterceptXMin[ch], RZero)
        /\ OnLine(ch, colorResponse.rgbInterceptXMax[ch], ROne)
        /\ (DarkX = <<1, 5>> /\ DarkY(ch) = <<1, 4>> /\
            BrightX = <<4, 5>> /\ BrightY(ch) = <<3, 4>>) =>
             /\ colorResponse.rgbSlope[ch] = <<5, 6>>
             /\ colorResponse.rgbInterceptY[ch] = <<1, 12>>
             /\ colorResponse.rgbInterceptXMin[ch] = <<0 - 1, 10>>
             /\ colorResponse.rgbInterceptXMax[ch] = <<11, 10>>

\* The response of a channel fitted to (0.2, 0.25) and (0.8, 0.75).
C7_Witness ==
  /\ ResponseReturned
  /\ \E ch \in Channels :
       /\ DarkX = <<1, 5>> /\ DarkY(ch) = <<1, 4>>
       /\ BrightX = <<4, 5>> /\ BrightY(ch) = <<3, 4>>
       /\ colorResponse.rgbSlope[ch] = <<5, 6>>

-----------------------------------------------------------------------------
(* The stage wrappers: adjustBlackLevel, whiteBalance, clampAndStretch,      *)
(* demosaic, colorCorrect                                                   *)

Call(op, arg) == [op |-> op, arg |-> arg]

\* The calls a wrapper makes on the CameraIsp object it builds, in order.
\* rawRef, raw and rgb are the images the caller hands in.
adjustBlackLevelCalls ==
  << Call("CameraIsp", "rawRef"), Call("setBlackLevel", "blackLevel"),
     Call("setup", "-"), Call("loadImage", "rawRef"),
     Call("setRawImage", "raw"), Call("blackLevelAdjust", "-"),
     Call("getRawImage", "-") >>

whiteBalanceCallsLoadLast ==
  << Call("CameraIsp", "rawRef"), Call("setWhiteBalance", "whiteBalanceGain"),
     Call("setup", "-"), Call("setRawImage", "raw"),
     Call("loadImage", "rawRef"), Call("whiteBalance", "false"),
     Call("getRawImage", "-") >>

whiteBalanceCalls ==
  << Call("CameraIsp", "rawRef"), Call("setWhiteBalance", "whiteBalanceGain"),
     Call("setup", "-"), Call("loadImage", "rawRef"),
     Call("setRawImage", "raw"), Call("whiteBalance", "false"),
     Call("getRawImage", "-") >>

clampAndStretchCalls(clampMin, clampMax) ==
  << Call("CameraIsp", "raw"), Call("setClampMin", clampMin),
     Call("setClampMax", clampMax), Call("setup", "-"),
     Call("loadImage", "rawRef"), Call("setRawImage", "raw"),
     Call("clampAndStretch", "-"), Call("getRawImage", "-") >>

demosaicCalls ==
  << Call("CameraIsp", "rawRef"),
     Call("setDemosaicFilter", "BILINEAR_DM_FILTER"), Call("setup", "-"),
     Call("loadImage", "rawRef"), Call("setRawImage", "raw"),
     Call("demosaic", "-"), Call("getDemosaicedImage", "-") >>

colorCorrectCalls ==
  << Call("CameraIsp", "rawRef"), Call("setCCM", "ccm"),
     Call("setGamma", "gamma"), Call("setup", "-"),
     Call("loadImage", "rawRef"), Call("setDemosaicedImage", "rgb"),
     Call("colorCorrect", "-"), Call("getDemosaicedImage", "-") >>

\* The CameraIsp objects built so far.
NumIsp == Cardinality({ i \in DOMAIN ispLog : ispLog[i].op = "CameraIsp" })

\* A wrapper that builds its object before it looks at the file.
RunWrapperBuildFirst(calls) ==
  /\ ispLog' = ispLog \o
       << [isp |-> NumIsp + 1, op |-> calls[1].op, arg |-> calls[1].arg] >>
  /\ outcome' = IF configReadable THEN Returned(calls[Len(calls)].op)
                ELSE FileReadFailed
  /\ pc' = IF configReadable THEN "stages" ELSE "done"

\* A wrapper runs: getJson throws when the configuration cannot be read, and
\* nothing is built; otherwise the calls go to an object of its own.
RunWrapper(calls) ==
  IF configReadable
  THEN /\ ispLog' = ispLog \o
            [k \in DOMAIN calls |->
               [isp |-> NumIsp + 1, op |-> calls[k].op, arg |-> calls[k].arg]]
       /\ outcome' = Returned(calls[Len(calls)].op)
       /\ pc' = "stages"
  ELSE /\ outcome' = FileReadFailed
       /\ pc' = "done"
       /\ UNCHANGED ispLog

StageFrame ==
  UNCHANGED <<sortVars, numSquaresH, stats, label, contours, isChartFound,
              colorPatchList, medVars, rspVars, errVars, debugVars,
              extVars>>

adjustBlackLevel ==
  /\ pc = "stages" /\ NumIsp < MaxCalls
  /\ RunWrapper(adjustBlackLevelCalls)
  /\ UNCHANGED <<rgbClampMin, rgbClampMax>>
  /\ StageFrame

whiteBalance ==
  /\ pc = "stages" /\ NumIsp < MaxCalls
  /\ RunWrapper(whiteBalanceCalls)
  /\ UNCHANGED <<rgbClampMin, rgbClampMax>>
  /\ StageFrame

RMax(a, b) == IF RLess(a, b) THEN b ELSE a

RMin(a, b) == IF RLess(b, a) THEN b ELSE a

\* rgbClampMin = m * xMin + b, then rgbClampMin[ch] = max(0.0f, rgbClampMin[ch])
ClampMinOf(m, b, xMin) ==
  [ch \in Channels |-> RMax(RZero, RAdd(RMul(m[ch], xMin), b[ch]))]

\* rgbClampMax = m * xMax + b, then rgbClampMax[ch] = min(1.0f, rgbClampMax[ch])
ClampMaxOf(m, b, xMax) ==
  [ch \in Channels |-> RMin(ROne, RAdd(RMul(m[ch], xMax), b[ch]))]

\* The bounds are written back to the caller before the configuration is read.
clampAndStretch ==
  /\ pc = "stages" /\ NumIsp < MaxCalls
  /\ rgbClampMin' = ClampMinOf(colorResponse.rgbSlope,
                               colorResponse.rgbInterceptY, rgbClampMin[1])
  /\ rgbClampMax' = ClampMaxOf(colorResponse.rgbSlope,
                               colorResponse.rgbInterceptY, rgbClampMax[1])
  /\ RunWrapper(clampAndStretchCalls(rgbClampMin', rgbClampMax'))
  /\ StageFrame

demosaic ==
  /\ pc = "stages" /\ NumIsp < MaxCalls
  /\ RunWrapper(demosaicCalls)
  /\ UNCHANGED <<rgbClampMin, rgbClampMax>>
  /\ StageFrame

colorCorrect ==
  /\ pc = "stages" /\ NumIsp < MaxCalls
  /\ RunWrapper(colorCorrectCalls)
  /\ UNCHANGED <<rgbClampMin, rgbClampMax>>
  /\ StageFrame

\* Inputs: a response fitted to two gray points at x = 0.2 and x = 0.8, and
\* the configured reflectance thresholds, the same for the three channels.
ResponseFittedTo(a, b) ==
  LET fit == [ch \in Channels |->
                FitChannel(<<1, 5>>, Quarter(ChannelLevel(a, ch)),
                           <<4, 5>>, Quarter(ChannelLevel(b, ch)))]
  IN [rgbSlope |-> [ch \in Channels |-> fit[ch].slope],
      rgbInterceptY |-> [ch \in Channels |-> fit[ch].interceptY],
      rgbInterceptXMin |-> [ch \in Channels |-> fit[ch].interceptXMin],
      rgbInterceptXMax |-> [ch \in Channels |-> fit[ch].interceptXMax]]

Thresholds == { <<0, 1>>, <<1, 2>>, <<1, 1>> }

InitStages ==
  /\ pc = "stages"
  /\ configReadable \in BOOLEAN
  /\ \E a \in {0, 2, 4}, b \in {0, 2, 4} : colorResponse = ResponseFittedTo(a, b)
  /\ \E x \in Thresholds : rgbClampMin = <<x, x, x>>
  /\ \E x \in Thresholds : rgbClampMax = <<x, x, x>>
  /\ ispLog = <<>>
  /\ colorPatches = <<>>
  /\ rgbLinearMacbeth = <<>>
  /\ imageSize = [width |-> 0, height |-> 0]
  /\ numSquaresW = 0
  /\ image = [rows |-> 0, cols |-> 0, px |-> <<>>]
  /\ isRaw = TRUE
  /\ mask = {}
  /\ SortIdle /\ DetIdle /\ ErrIdle /\ DebugIdle /\ ExtIdle

NextStages ==
  \/ adjustBlackLevel
  \/ whiteBalance
  \/ clampAndStretch
  \/ demosaic
  \/ colorCorrect

SpecStages == InitStages /\ [][NextStages]_vars

-----------------------------------------------------------------------------
(* Claims about the stage wrappers *)

InUnit(v) == ~RLess(v, RZero) /\ ~RLess(ROne, v) /\ IsFinite(v)

ClampCalls ==
  { i \in DOMAIN ispLog : ispLog[i].op \in {"setClampMin", "setClampMax"} }

\* C8: the clamp bounds clampAndStretch hands to the ISP and writes back to
\* the caller are clipped to [0,1], for every channel.
C8_ClampBoundsInUnit ==
  \A i \in ClampCalls : \A ch \in Channels : InUnit(ispLog[i].arg[ch])

Setters ==
  {"setBlackLevel", "setWhiteBalance", "setClampMin", "setClampMax",
   "setDemosaicFilter", "setCCM", "setGamma"}

StageOps ==
  {"blackLevelAdjust", "whiteBalance", "clampAndStretch", "demosaic",
   "colorCorrect"}

IspObjects == { ispLog[i].isp : i \in DOMAIN ispLog }

\* The calls made on one object, in the order of the log.
CallsOn(id) == LET OnIt(e) == e.isp = id IN SelectSeq(ispLog, OnIt)

\* Built, set up by setters, then setup, loadImage(original raw image),
\* the previous stage's output put in its place, one stage operation, the
\* getter.
WellDriven(calls) ==
  LET n == Len(calls)
  IN /\ n >= 7
     /\ calls[1].op = "CameraIsp"
     /\ \A k \in 2..(n - 5) : calls[k].op \in Setters
     /\ calls[n - 4].op = "setup"
     /\ calls[n - 3] = Call("loadImage", "rawRef") @@ [isp |-> calls[1].isp]
     /\ \/ calls[n - 2] = Call("setRawImage", "raw") @@ [isp |-> calls[1].isp]
        \/ calls[n - 2] = Call("setDemosaicedImage", "rgb") @@ [isp |-> calls[1].isp]
     /\ calls[n - 1].op \in StageOps
     /\ calls[n].op \in {"getRawImage", "getDemosaicedImage"}

\* The calls on one object are next to each other in the log.
Contiguous(id) ==
  \A i, j, k \in DOMAIN ispLog :
    (i < j /\ j < k /\ ispLog[i].isp = id /\ ispLog[k].isp = id) =>
      ispLog[j].isp = id

\* C9: every stage wrapper builds an ISP object of its own and drives it in
\* the order setters, setup, loadImage(original raw image), setRawImage or
\* setDemosaicedImage(previous stage output), one stage operation, getter; no
\* object serves two wrapper calls.
C9_WrapperCallOrder ==
  \A id \in IspObjects : WellDriven(CallsOn(id)) /\ Contiguous(id)

\* Two wrappers have run, whiteBalance one of them.
C9_Witness ==
  /\ Cardinality(IspObjects) >= 2
  /\ \E i \in DOMAIN ispLog : ispLog[i].op = "whiteBalance"

-----------------------------------------------------------------------------
(* computeColorPatchErrors *)

kScale == Rat(255, 1)

\* im *= kScale: every pixel of the image the caller holds is multiplied.
Scaled(img) ==
  [img EXCEPT !.px = [p \in DOMAIN img.px |->
                        [ch \in Channels |-> RMul(img.px[p][ch], kScale)]]]

\* im.at<Vec3f>(centroid): the Point2f is converted to the pixel it rounds to.
PixelAt(img, centroid) == img.px[<<ToInt(centroid[2]), ToInt(centroid[1])>>]

RAbs(a) == IF RLess(a, RZero) THEN RNeg(a) ELSE a

RECURSIVE RSum(_)
RSum(seq) == IF seq = <<>> THEN RZero ELSE RAdd(Head(seq), RSum(Tail(seq)))

\* Vec3f macbethPatchVal = Vec3i{rgbLinearMacbeth[i][0..2]}
macbethPatchVal(i) == [ch \in Channels |-> Rat(rgbLinearMacbeth[i][ch], 1)]

Diff(v, i) == [ch \in Channels |-> RSub(v[ch], macbethPatchVal(i)[ch])]

\* The magnitudes of the components of a difference: what norm(diff, NORM_L2)
\* and fabs(diff[ch]) are computed from.
Magnitudes(d) == [ch \in Channels |-> RAbs(d[ch])]

\* An error vector over the differences diffs[i] of the patches. Component 0,
\* the mean of the Euclidean norms, is kept as the vectors whose norms it
\* averages; components 1..3 are the mean absolute differences per channel.
ErrorVector(diffs) ==
  LET numPatches == Len(diffs)
  IN [normsOf |-> [i \in DOMAIN diffs |-> Magnitudes(diffs[i])],
      numPatches |-> numPatches,
      absolute |-> [ch \in Channels |->
                      RSum([i \in DOMAIN diffs |->
                              RDiv(Magnitudes(diffs[i])[ch],
                                   Rat(numPatches, 1))])]]

\* diffBefore is taken from the patch's rgbMedian, diffAfter from the pixel of
\* the scaled imAfter at the patch's centroid.
errBefore(patches) ==
  ErrorVector([i \in DOMAIN patches |-> Diff(patches[i].rgbMedian, i)])

errAfter(patches, after) ==
  ErrorVector([i \in DOMAIN patches |->
                 Diff(PixelAt(after, patches[i].centroid), i)])

\* One call of computeColorPatchErrors(imBefore, imAfter, colorPatches).
ComputeColorPatchErrors ==
  /\ pc = "errors"
  /\ Len(errorsReturned) < MaxErrorCalls
  /\ imBefore' = Scaled(imBefore)
  /\ imAfter' = Scaled(imAfter)
  /\ LET pair == <<errBefore(colorPatches), errAfter(colorPatches, imAfter')>>
     IN /\ errorsReturned' = Append(errorsReturned, pair)
        /\ outcome' = Returned(pair)
  /\ UNCHANGED <<pc, sortVars, numSquaresH, stats, label, contours,
                 isChartFound, colorPatchList, medVars, rspVars, ispVars,
                 debugVars, extVars>>

\* Inputs: demosaiced images in [0,1] of a chart of n patches, each patch of
\* one colour, and the patches with the medians measured on imBefore.
ErrorPixels ==
  { <<Rat(0, 1), Rat(0, 1), Rat(0, 1)>>,
    <<Rat(1, 5), Rat(2, 5), Rat(1, 1)>>,
    <<Rat(37, 255), Rat(59, 255), Rat(83, 255)>>,
    <<Rat(1, 1), Rat(1, 1), Rat(1, 1)>> }

ErrorImage(colours) ==
  [rows |-> 2, cols |-> 2 * Len(colours),
   px |-> [p \in (0..1) \X (0..(2 * Len(colours) - 1)) |->
             colours[p[2] \div 2 + 1]]]

MeasuredPatches(n, img) ==
  [i \in 1..n |->
     [ChartPatches(n, FALSE)[i] EXCEPT
        !.rgbMedian = PixelAt(img, ChartPatches(n, FALSE)[i].centroid)]]

InitErrors ==
  /\ pc = "errors"
  /\ rgbLinearMacbeth \in ReferenceCharts
  /\ \E n \in 1..MaxErrPatches :
       /\ \E cb \in [1..n -> ErrorPixels] : imBefore = ErrorImage(cb)
       /\ \E ca \in [1..n -> ErrorPixels] : imAfter = ErrorImage(ca)
       /\ colorPatches = MeasuredPatches(n, imBefore)
  /\ errorsReturned = <<>>
  /\ colorResponse = <<>>
  /\ imageSize = [width |-> imBefore.cols, height |-> imBefore.rows]
  /\ numSquaresW = 0
  /\ SortIdle /\ DetIdle /\ MedIdle /\ IspIdle /\ DebugIdle /\ ExtIdle

NextErrors == ComputeColorPatchErrors

SpecErrors == InitErrors /\ [][NextErrors]_vars

-----------------------------------------------------------------------------
(* Claims about computeColorPatchErrors *)

\* C10: computeColorPatchErrors mutates none of its arguments: a call leaves
\* every pixel of imBefore and of imAfter and every patch as it was, so that
\* a second call with the same arguments returns the same pair.
C10_ArgumentsUntouched ==
  [][/\ imBefore' = imBefore
     /\ imAfter' = imAfter
     /\ colorPatches' = colorPatches]_vars

\* The deviation of the measured patches from the reference chart on the
\* 8-bit scale: the medians times 255 against the chart entries.
DeviationOnEightBitScale ==
  ErrorVector([i \in DOMAIN colorPatches |->
                 Diff([ch \in Channels |->
                         RMul(colorPatches[i].rgbMedian[ch], kScale)], i)])

\* C11: when imBefore and imAfter hold the same pixels, and the medians of
\* the patches were measured on that image, computeColorPatchErrors returns
\* errorBefore = errorAfter, both the mean deviation of the image from the
\* reference chart on the 8-bit scale.
C11_IdenticalImagesSameErrors ==
  (Len(errorsReturned) = 1 /\ imBefore = imAfter) =>
    /\ errorsReturned[1][1] = errorsReturned[1][2]
    /\ errorsReturned[1][1] = DeviationOnEightBitScale
    /\ errorsReturned[1][2] = DeviationOnEightBitScale

-----------------------------------------------------------------------------
(* findBlackLevel *)

bitsPerPixel == 2

\* (1 << bitsPerPixel) - 1
maxPixelValue == 2 ^ bitsPerPixel - 1

kNumPixelsMin == 50

kMinNumVertices == 10

\* The bins h < maxPixelValue of a histogram that hold more than
\* kNumPixelsMin pixels.
BinsAboveFloor(hist) ==
  { h \in 0..(maxPixelValue - 1) : hist[h] > kNumPixelsMin }

\* The threshold after the histogram loop of one channel: the first bin
\* above the floor, or, when the loop ends without finding one, the value
\* the variable had before.
ThresholdAfter(hist, before) ==
  IF BinsAboveFloor(hist) # {} THEN MinOfSet(BinsAboveFloor(hist)) ELSE before

\* Lines 293-311: the configuration is read before anything else is done.
BlackLoadConfig ==
  /\ pc = "black"
  /\ IF configReadable
     THEN pc' = "black_hist" /\ UNCHANGED outcome
     ELSE pc' = "done" /\ outcome' = FileReadFailed
  /\ UNCHANGED <<sortVars, numSquaresH, stats, label, contours, isChartFound,
                 colorPatchList, medVars, rspVars, errVars, ispVars,
                 debugVars, extVars>>

\* One pass of the loop over the channels: histogram, threshold, mask.
ThresholdChannel ==
  /\ pc = "black_hist"
  /\ LET i == Len(maskThresholds) + 1
     IN /\ blackLevelThreshold' = ThresholdAfter(hists[i], blackLevelThreshold)
        /\ maskThresholds' = Append(maskThresholds, blackLevelThreshold')
        /\ pc' = IF i = 3 THEN "black_contours" ELSE "black_hist"
  /\ UNCHANGED <<sortVars, detVars, medVars, rspVars, errVars, ispVars,
                 debugVars, hists, blackContours, contoursFiltered,
                 blackLevels, minNorm, minNormIdx, ccmVars, parVars,
                 fileVars, passVars>>

\* A contour of the black hole mask: contourArea, number of vertices, area of
\* the minimal enclosing circle, and the median getRgbMedianMask finds in it.
BlackContour(a, n, c, m) ==
  [contArea |-> a, size |-> n, circleArea |-> c, median |-> m]

\* contArea / circleArea < kMaxRatioAreas, kMaxRatioAreas = 0.5f
NotCircular(c) == 2 * c.contArea < c.circleArea

Survives(c) ==
  ~(c.contArea < kNumPixelsMin \/ c.size < kMinNumVertices \/ NotCircular(c))

BlackMedians == { <<0, 0, 1>>, <<1, 0, 0>>, <<1, 1, 1>> }

BlackContourMenu ==
  { BlackContour(49, 12, 60, <<0, 0, 0>>),
    BlackContour(60, 9, 80, <<0, 0, 0>>),
    BlackContour(60, 12, 121, <<0, 0, 0>>) } \cup
  { BlackContour(50, 10, 100, m) : m \in BlackMedians }

BlackContourLists ==
  UNION { [1..n -> BlackContourMenu] : n \in 0..MaxBlackContours }

\* Lines 334-380: the contours of the mask, the filter, the debug plot.
FilterBlackContours ==
  /\ pc = "black_contours"
  /\ \E list \in BlackContourLists :
       /\ blackContours' = list
       /\ contoursFiltered' = SelectSeq(list, Survives)
  /\ IF saveDebugImages
     THEN /\ stepDebugImages' = stepDebugImages + 1
          /\ IF outputWritable
             THEN pc' = "black_medians" /\ UNCHANGED outcome
             ELSE pc' = "done" /\ outcome' = WriteFailed
     ELSE pc' = "black_medians" /\ UNCHANGED <<outcome, stepDebugImages>>
  /\ UNCHANGED <<sortVars, numSquaresH, stats, label, contours, isChartFound,
                 colorPatchList, medVars, rspVars, errVars, ispVars,
                 saveDebugImages, outputWritable, hists, blackLevelThreshold,
                 maskThresholds, blackLevels, minNorm, minNormIdx, ccmVars, parVars,
                 fileVars, passVars>>

\* norm(v), compared by its square; DBL_MAX is <<>>.
NormSq3(v) == v[1] * v[1] + v[2] * v[2] + v[3] * v[3]

NormLess(n, m) == m = <<>> \/ n < m[1]

\* One pass of the loop over the filtered contours, lines 387-403.
BlackMedianStep ==
  /\ pc = "black_medians"
  /\ Len(blackLevels) < Len(contoursFiltered)
  /\ LET i == Len(blackLevels) + 1
         level == contoursFiltered[i].median
     IN /\ blackLevels' = Append(blackLevels, level)
        /\ IF NormLess(NormSq3(level), minNorm)
           THEN minNorm' = <<NormSq3(level)>> /\ minNormIdx' = i - 1
           ELSE UNCHANGED <<minNorm, minNormIdx>>
  /\ UNCHANGED <<pc, sortVars, detVars, medVars, rspVars, errVars, ispVars,
                 debugVars, hists, blackLevelThreshold, maskThresholds,
                 blackContours, contoursFiltered, ccmVars, parVars,
                 fileVars, passVars>>

\* What blackLevels[minNormIdx] gives: with no filtered contour the vector is
\* empty and the read is beyond its end.
BlackLevelRead ==
  IF minNormIdx < Len(blackLevels)
  THEN { Returned(blackLevels[minNormIdx + 1]) }
  ELSE { [kind |-> "crash"] } \cup
       { Returned(v) : v \in { <<0, 0, 0>>, <<0 - 1, 0 - 1, 0 - 1>> } }

\* Lines 405-422: the black level, the debug image, the return.
BlackReturn ==
  /\ pc = "black_medians"
  /\ Len(blackLevels) = Len(contoursFiltered)
  /\ \E res \in BlackLevelRead :
       IF res.kind = "returned" /\ saveDebugImages
       THEN /\ stepDebugImages' = stepDebugImages + 1
            /\ outcome' = IF outputWritable THEN res ELSE WriteFailed
       ELSE outcome' = res /\ UNCHANGED stepDebugImages
  /\ pc' = "done"
  /\ UNCHANGED <<sortVars, numSquaresH, stats, label, contours, isChartFound,
                 colorPatchList, medVars, rspVars, errVars, ispVars,
                 saveDebugImages, outputWritable, extVars>>

\* Inputs: per channel a histogram whose first bin above the floor is bin k;
\* the bins below it hold exactly kNumPixelsMin pixels. With k = maxPixelValue
\* no bin the loop looks at is above the floor.
HistWithFirst(k) ==
  [h \in 0..maxPixelValue |->
     IF h < k THEN kNumPixelsMin ELSE kNumPixelsMin + 1]

FirstBins == {0, 1, maxPixelValue}

InitBlack ==
  /\ pc = "black"
  /\ configReadable \in BOOLEAN
  /\ saveDebugImages \in BOOLEAN
  /\ outputWritable \in BOOLEAN
  /\ stepDebugImages = 0
  /\ hists \in [Channels -> { HistWithFirst(k) : k \in FirstBins }]
  /\ blackLevelThreshold = 0
  /\ maskThresholds = <<>>
  /\ blackContours = <<>>
  /\ contoursFiltered = <<>>
  /\ blackLevels = <<>>
  /\ minNorm = <<>>
  /\ minNormIdx = 0
  /\ imageSize = [width |-> 0, height |-> 0]
  /\ numSquaresW = 0
  /\ image = [rows |-> 0, cols |-> 0, px |-> <<>>]
  /\ isRaw = TRUE
  /\ mask = {}
  /\ SortIdle /\ DetIdle /\ RspIdle /\ ErrIdle /\ IspIdle /\ CcmIdle
  /\ ParIdle /\ FilesIdle /\ PassIdle

NextBlack ==
  \/ BlackLoadConfig
  \/ ThresholdChannel
  \/ FilterBlackContours
  \/ BlackMedianStep
  \/ BlackReturn

SpecBlack == InitBlack /\ [][NextBlack]_vars

-----------------------------------------------------------------------------
(* Claims about findBlackLevel *)

\* C12: the threshold a channel's part of the black mask is built with is
\* the lowest bin of that channel's own histogram that holds more than the
\* noise floor of 50 pixels; it is determined by that histogram alone, so two
\* channels with the same histogram get the same threshold, whatever was
\* found for the channels before them.
C12_ThresholdOfOwnHistogram ==
  \A i \in DOMAIN maskThresholds :
    /\ BinsAboveFloor(hists[i]) # {} =>
         maskThresholds[i] = MinOfSet(BinsAboveFloor(hists[i]))
    /\ \A j \in DOMAIN maskThresholds :
         hists[i] = hists[j] => maskThresholds[i] = maskThresholds[j]

SurvivingMedians ==
  { contoursFiltered[i].median : i \in DOMAIN contoursFiltered }

\* C13: whenever findBlackLevel returns, the vector returned is the median of
\* a contour that survived the filter, no surviving contour has a median of
\* smaller norm, and of the contours of that norm it is the earliest.
C13_ReturnsNearestSurvivor ==
  (pc = "done" /\ outcome.kind = "returned") =>
    /\ outcome.value \in SurvivingMedians
    /\ \A m \in SurvivingMedians : NormSq3(m) >= NormSq3(outcome.value)
    /\ \E i \in DOMAIN contoursFiltered :
         /\ contoursFiltered[i].median = outcome.value
         /\ \A j \in 1..(i - 1) :
              NormSq3(contoursFiltered[j].median) > NormSq3(outcome.value)

-----------------------------------------------------------------------------
(* computeCCM *)

\* vector<float> patchRGBv {patchRGB[0], patchRGB[1], patchRGB[2]}
PatchInput(patch) == [ch \in Channels |-> patch.rgbMedian[ch]]

\* The chart entry, converted to float and multiplied by 1.0f / 255.0f.
ChartOutput(entry) == [ch \in Channels |-> RMul(Rat(entry[ch], 1), Rat(1, 255))]

\* What the regression solver may give back: a 3 x 3 matrix, row by row.
SolverResults ==
  { << <<1, 0, 0>>, <<0, 1, 0>>, <<0, 0, 1>> >>,
    << <<1, 2, 3>>, <<4, 5, 6>>, <<7, 8, 9>> >>,
    << <<0, 0, 0>>, <<0, 0, 0>>, <<0, 0, 0>> >> }

CcmEntryTransposed(ccm, y, x) == ccm[x][y]

\* ccmMat.at<float>(y, x) = ccm.at(y).at(x)
CcmEntry(ccm, y, x) == ccm[y][x]

CcmMat(ccm) ==
  [y \in 1..Len(ccm) |-> [x \in 1..Len(ccm[1]) |-> CcmEntry(ccm, y, x)]]

\* One call of computeCCM(colorPatches).
ComputeCCM ==
  /\ pc = "ccm"
  /\ solverCall' =
       [inputDim |-> 3, outputDim |-> 3,
        inputs |-> [i \in DOMAIN colorPatches |-> PatchInput(colorPatches[i])],
        outputs |-> [i \in DOMAIN colorPatches |->
                       ChartOutput(rgbLinearMacbeth[i])],
        numIterations |-> 100000, stepSize |-> Rat(1, 10)]
  /\ solverResult' \in SolverResults
  /\ outcome' = Returned(CcmMat(solverResult'))
  /\ pc' = "done"
  /\ UNCHANGED <<sortVars, numSquaresH, stats, label, contours, isChartFound,
                 colorPatchList, medVars, rspVars, errVars, ispVars,
                 debugVars, blackVars, parVars, fileVars,
                 passVars>>

InitCcm ==
  /\ pc = "ccm"
  /\ rgbLinearMacbeth \in ReferenceCharts
  /\ \E n \in 1..MaxErrPatches :
       \E colours \in [1..n -> ErrorPixels] :
         colorPatches = MeasuredPatches(n, ErrorImage(colours))
  /\ colorResponse = <<>>
  /\ imageSize = [width |-> 2 * Len(colorPatches), height |-> 2]
  /\ numSquaresW = 0
  /\ SortIdle /\ DetIdle /\ MedIdle /\ ErrIdle /\ IspIdle /\ DebugIdle
  /\ BlackIdle /\ CcmIdle /\ ParIdle /\ FilesIdle /\ PassIdle

NextCcm == ComputeCCM

SpecCcm == InitCcm /\ [][NextCcm]_vars

-----------------------------------------------------------------------------
(* Claims about computeCCM *)

\* C14: computeCCM hands the solver one (input, output) pair per patch, in
\* patch order: input i is the rgbMedian of patch i, output i is entry i of
\* the reference chart with each component divided by 255, and inputDim =
\* outputDim = 3; the solver's 3 x 3 result is copied element for element,
\* row y and column x, into the matrix returned.
C14_SolverGetsPatchPairs ==
  pc = "done" =>
    /\ solverCall.inputDim = 3 /\ solverCall.outputDim = 3
    /\ Len(solverCall.inputs) = Len(colorPatches)
    /\ Len(solverCall.outputs) = Len(colorPatches)
    /\ \A i \in DOMAIN colorPatches : \A ch \in Channels :
         /\ solverCall.inputs[i][ch] = colorPatches[i].rgbMedian[ch]
         /\ solverCall.outputs[i][ch] = Rat(rgbLinearMacbeth[i][ch], 255)
    /\ outcome.kind = "returned"
    /\ \A y \in 1..3 : \A x \in 1..3 :
         outcome.value[y][x] = solverResult[y][x]

\* Two patches of different colours, and a solver result that is not
\* symmetric.
C14_Witness ==
  /\ pc = "done"
  /\ Len(solverCall.inputs) = 2
  /\ solverCall.inputs[1] # solverCall.inputs[2]
  /\ solverResult[1][2] # solverResult[2][1]
  /\ outcome.value[1][2] = 2

-----------------------------------------------------------------------------
(* Claims about the debug output *)

\* C15: for the same inputs the outcome is the same whether saveDebugImages
\* is true or false; with the response fitted, computeRGBResponse gives its
\* caller what it gives without debug output, the flag changing only the
\* files written and the counter stepDebugImages.
C15_DebugFlagNoEffect ==
  (pc = "done" /\ colorResponse # <<>>) =>
    outcome \in FitOutcomes(colorResponse, colorPatches, image, isRaw,
                            FALSE, outputWritable)

-----------------------------------------------------------------------------
(* parallel_for_ *)

Threads == 0..(MaxThreads - 1)

\* tbb::blocked_range<T>(begin, end, grainsize)
BlockedRange(b, e, g) == [begin |-> b, end |-> e, grain |-> g]

RangeSize(r) == IF r.begin < r.end THEN r.end - r.begin ELSE 0

RangeDivisible(r) == r.grain < RangeSize(r)

RangeHalves(r) ==
  LET middle == r.begin + (r.end - r.begin) \div 2
  IN <<[r EXCEPT !.end = middle], [r EXCEPT !.begin = middle]>>

\* A piece of work: a 1D range, a 2D range or a chunk of an OpenMP loop.
Work1(r) == [kind |-> "range", cols |-> r]

Work2(rows, cols) == [kind |-> "range2d", rows |-> rows, cols |-> cols]

Chunk(calls) == [kind |-> "chunk", calls |-> calls]

WorkDivisible(w) ==
  CASE w.kind = "range" -> RangeDivisible(w.cols)
    [] w.kind = "range2d" -> RangeDivisible(w.rows) \/ RangeDivisible(w.cols)
    [] OTHER -> FALSE

\* blocked_range2d splits the dimension that is longer in units of its grain.
WorkHalves(w) ==
  IF w.kind = "range"
  THEN { Work1(RangeHalves(w.cols)[1]), Work1(RangeHalves(w.cols)[2]) }
  ELSE IF RangeSize(w.rows) * w.cols.grain < RangeSize(w.cols) * w.rows.grain
       THEN { Work2(w.rows, RangeHalves(w.cols)[1]),
              Work2(w.rows, RangeHalves(w.cols)[2]) }
       ELSE { Work2(RangeHalves(w.rows)[1], w.cols),
              Work2(RangeHalves(w.rows)[2], w.cols) }

Body1DFromSecond(r) ==
  [k \in 1..(RangeSize(r) - 1) |-> <<r.begin + k>>]

\* for (T x = r.begin(); x != r.end(); ++x) func(x);
Body1D(r) ==
  [k \in 1..RangeSize(r) |-> <<r.begin + k - 1>>]

\* for y in r.rows(), for x in r.cols(): func(x, y)
Body2D(rows, cols) ==
  [k \in 1..(RangeSize(rows) * RangeSize(cols)) |->
     << cols.begin + ((k - 1) % RangeSize(cols)),
        rows.begin + ((k - 1) \div RangeSize(cols)) >>]

BodyOf(w) ==
  CASE w.kind = "range" -> Body1D(w.cols)
    [] w.kind = "range2d" -> Body2D(w.rows, w.cols)
    [] OTHER -> w.calls

\* The plain loops of the default branch and of the OpenMP branch.
LoopCalls(call) ==
  IF call.form = "1d"
  THEN Body1D(BlockedRange(call.x_min, call.x_max, 1))
  ELSE Body2D(BlockedRange(call.outer_min, call.outer_max, 1),
              BlockedRange(call.inner_min, call.inner_max, 1))

\* schedule(dynamic, grain): the iterations are handed out in chunks of grain
\* consecutive iterations.
ChunksOf(calls, grain) ==
  { Chunk(SubSeq(calls, (k - 1) * grain + 1, Min2(k * grain, Len(calls)))) :
      k \in 1..((Len(calls) + grain - 1) \div grain) }

InitialWork(call) ==
  IF call.form = "1d"
  THEN Work1(BlockedRange(call.x_min, call.x_max, call.grain_x))
  ELSE Work2(BlockedRange(call.outer_min, call.outer_max, call.grain_outer),
             BlockedRange(call.inner_min, call.inner_max, call.grain_inner))

ParFrame ==
  UNCHANGED <<sortVars, detVars, medVars, rspVars, errVars, ispVars,
              debugVars, blackVars, ccmVars, fileVars, passVars>>

\* The switch on parr: the default branch runs the loops on the calling
\* thread, thread 0; the other branches leave work for the threads.
ParStart ==
  /\ pc = "par"
  /\ parPending' =
       CASE parCall.parr = "TBB" ->
              IF BodyOf(InitialWork(parCall)) = <<>> THEN {}
              ELSE { InitialWork(parCall) }
         [] parCall.parr = "OpenMP" ->
              ChunksOf(LoopCalls(parCall),
                       IF parCall.form = "1d" THEN parCall.grain_x
                       ELSE parCall.grain_outer)
         [] OTHER -> {}
  /\ parWorkers' =
       [t \in Threads |->
          IF t = 0 /\ parCall.parr = "None" THEN LoopCalls(parCall) ELSE <<>>]
  /\ pc' = "par_run"
  /\ UNCHANGED <<parCall, parCalls>>
  /\ ParFrame

\* tbb::parallel_for divides a range that is divisible.
ParSplit ==
  /\ pc = "par_run"
  /\ \E w \in parPending :
       /\ WorkDivisible(w)
       /\ parPending' = (parPending \ {w}) \cup WorkHalves(w)
  /\ UNCHANGED <<pc, parCall, parWorkers, parCalls>>
  /\ ParFrame

\* A thread that has nothing to do takes a piece of work and runs the body
\* on it.
ParTake ==
  /\ pc = "par_run"
  /\ \E t \in Threads, w \in parPending :
       /\ parWorkers[t] = <<>>
       /\ parWorkers' = [parWorkers EXCEPT ![t] = BodyOf(w)]
       /\ parPending' = parPending \ {w}
  /\ UNCHANGED <<pc, parCall, parCalls>>
  /\ ParFrame

\* func(x) or func(x, y)
ParCallFunc ==
  /\ pc = "par_run"
  /\ \E t \in Threads :
       /\ parWorkers[t] # <<>>
       /\ parCalls' = Append(parCalls, [thread |-> t, args |-> Head(parWorkers[t])])
       /\ parWorkers' = [parWorkers EXCEPT ![t] = Tail(parWorkers[t])]
  /\ UNCHANGED <<pc, parCall, parPending>>
  /\ ParFrame

\* parallel_for_ returns when all the work is done.
ParReturn ==
  /\ pc = "par_run"
  /\ parPending = {}
  /\ \A t \in Threads : parWorkers[t] = <<>>
  /\ pc' = "done"
  /\ UNCHANGED <<parCall, parPending, parWorkers, parCalls>>
  /\ ParFrame

ParModes == {"None", "TBB", "OpenMP"}

ParCalls1D ==
  { [form |-> "1d", parr |-> m, x_min |-> a, x_max |-> b, grain_x |-> g] :
      m \in ParModes, a \in 0..1, b \in 0..MaxIndex, g \in 1..MaxGrain }

ParCalls2D ==
  { [form |-> "2d", parr |-> m, outer_min |-> 0, outer_max |-> oy,
     inner_min |-> a, inner_max |-> 2, grain_outer |-> g, grain_inner |-> 1] :
      m \in ParModes, oy \in 1..2, a \in 0..1, g \in 1..MaxGrain }

InitPar ==
  /\ pc = "par"
  /\ parCall \in ParCalls1D \cup ParCalls2D
  /\ parPending = {}
  /\ parWorkers = [t \in Threads |-> <<>>]
  /\ parCalls = <<>>
  /\ imageSize = [width |-> 0, height |-> 0]
  /\ numSquaresW = 0
  /\ SortIdle /\ DetIdle /\ MedIdle /\ RspIdle /\ ErrIdle /\ IspIdle
  /\ DebugIdle /\ BlackIdle /\ CcmIdle /\ FilesIdle /\ PassIdle

NextPar ==
  \/ ParStart
  \/ ParSplit
  \/ ParTake
  \/ ParCallFunc
  \/ ParReturn

SpecPar == InitPar /\ [][NextPar]_vars

-----------------------------------------------------------------------------
(* Claims about parallel_for_ *)

\* The number of calls of func with the arguments a.
TimesCalled(a) == Cardinality({ k \in DOMAIN parCalls : parCalls[k].args = a })

\* The arguments func has to be called with.
Expected ==
  IF parCall.form = "1d"
  THEN { <<x>> : x \in parCall.x_min..(parCall.x_max - 1) }
  ELSE { <<x, y>> : x \in parCall.inner_min..(parCall.inner_max - 1),
                    y \in parCall.outer_min..(parCall.outer_max - 1) }

\* C16: parallel_for_ calls func exactly once for every index of
\* [x_min, x_max), or for every pair (x, y) of the inner and the outer range
\* with the inner index first, and for nothing else, in every mode and for
\* every split of the range among the threads; with Parallel::None the calls
\* are made on the calling thread in increasing order.
C16_EveryIndexOnce ==
  /\ \A k \in DOMAIN parCalls :
       parCalls[k].args \in Expected /\ TimesCalled(parCalls[k].args) = 1
  /\ pc = "done" =>
       /\ \A a \in Expected : TimesCalled(a) = 1
       /\ parCall.parr = "None" =>
            /\ \A k \in DOMAIN parCalls : parCalls[k].thread = 0
            /\ [k \in DOMAIN parCalls |-> parCalls[k].args] = LoopCalls(parCall)

\* A range of three indices was cut in pieces and run by two threads.
C16_Witness ==
  /\ pc = "done"
  /\ parCall.form = "1d" /\ parCall.parr = "TBB"
  /\ Len(parCalls) = 3
  /\ \E j, k \in DOMAIN parCalls :
       parCalls[j].thread # parCalls[k].thread /\ j < k
       /\ parCalls[j].args[1] > parCalls[k].args[1]

-----------------------------------------------------------------------------
(* File access: getRaw, writeIspConfigFile, saveBlackLevel, saveXIntercepts *)

\* ofstream on a file that cannot be opened
FileOpenFailed == [kind |-> "exception", what |-> "file open failed"]

getRawCalls ==
  << Call("CameraIsp", "image"), Call("loadImage", "image"),
     Call("getRawImage", "-") >>

writeIspConfigFileCalls ==
  << Call("CameraIsp", "raw"), Call("setBlackLevel", "blackLevel * maxPixelValue"),
     Call("setWhiteBalance", "whiteBalanceGain"), Call("setClampMin", "clampMin"),
     Call("setClampMax", "clampMax"), Call("setCCM", "ccm"),
     Call("setGamma", "gamma"), Call("setup", "-"), Call("loadImage", "raw"),
     Call("dumpConfigFile", "ispConfigFileOut") >>

getRaw ==
  /\ pc = "stages" /\ NumIsp < MaxCalls
  /\ RunWrapper(getRawCalls)
  /\ UNCHANGED <<rgbClampMin, rgbClampMax>>
  /\ StageFrame

writeIspConfigFile ==
  /\ pc = "stages" /\ NumIsp < MaxCalls
  /\ RunWrapper(writeIspConfigFileCalls)
  /\ UNCHANGED <<rgbClampMin, rgbClampMax>>
  /\ StageFrame

\* The stream is opened, tested, written and closed.
WriteText(name, text) ==
  IF outputWritable
  THEN /\ outputFiles' = Append(outputFiles, [name |-> name, text |-> text])
       /\ outcome' = Returned("-")
       /\ pc' = "stages"
  ELSE /\ outcome' = FileOpenFailed
       /\ pc' = "done"
       /\ UNCHANGED outputFiles

SaveFrame ==
  UNCHANGED <<sortVars, numSquaresH, stats, label, contours, isChartFound,
              colorPatchList, medVars, rspVars, errVars, ispVars, debugVars,
              blackVars, ccmVars, parVars, passVars>>

saveBlackLevel ==
  /\ pc = "stages" /\ Len(outputFiles) < MaxCalls
  /\ WriteText("black_level.txt", <<"blackLevel">>)
  /\ SaveFrame

saveXIntercepts ==
  /\ pc = "stages" /\ Len(outputFiles) < MaxCalls
  /\ WriteText("intercept_x.txt",
               <<"[", colorResponse.rgbInterceptXMin, ",",
                 colorResponse.rgbInterceptXMax, "]">>)
  /\ SaveFrame

\* Inputs: one calibration run that calls the wrappers and writes its text
\* files, one call of findBlackLevel, or one call of getRgbMedianMask on a
\* raw image; the configuration can or cannot be read, the output directory
\* can or cannot be written.
InitFileOps ==
  /\ pc = "stages"
  /\ configReadable \in BOOLEAN
  /\ outputWritable \in BOOLEAN
  /\ saveDebugImages = FALSE
  /\ stepDebugImages = 0
  /\ colorResponse = ResponseFittedTo(0, 4)
  /\ rgbClampMin = << <<0, 1>>, <<0, 1>>, <<0, 1>> >>
  /\ rgbClampMax = << <<1, 1>>, <<1, 1>>, <<1, 1>> >>
  /\ ispLog = <<>>
  /\ colorPatches = <<>>
  /\ rgbLinearMacbeth = <<>>
  /\ imageSize = [width |-> 0, height |-> 0]
  /\ numSquaresW = 0
  /\ image = [rows |-> 0, cols |-> 0, px |-> <<>>]
  /\ isRaw = TRUE
  /\ mask = {}
  /\ SortIdle /\ DetIdle /\ ErrIdle /\ ExtIdle

InitFiles ==
  \/ InitFileOps
  \/ InitBlack
  \/ InitMedian /\ isRaw

Loaders ==
  \/ getRaw
  \/ NextStages
  \/ writeIspConfigFile
  \/ BlackLoadConfig
  \/ GetRgbMedianMask

Savers ==
  \/ saveBlackLevel
  \/ saveXIntercepts

NextFiles ==
  \/ getRaw
  \/ writeIspConfigFile
  \/ saveBlackLevel
  \/ saveXIntercepts
  \/ NextStages
  \/ NextBlack
  \/ NextMedian

SpecFiles == InitFiles /\ [][NextFiles]_vars

-----------------------------------------------------------------------------
(* Claims about file access *)

\* C17: when the configuration file cannot be read, getRaw, the five stage
\* wrappers, writeIspConfigFile, findBlackLevel and getRgbMedianMask end with
\* the file read exception, no CameraIsp operation has been called and nothing
\* is done after the failure; when the output file cannot be opened,
\* saveBlackLevel and saveXIntercepts end with the file open exception and no
\* file is written.
C17_FileErrorsAreFatal ==
  [][ /\ (Loaders /\ ~configReadable) =>
           /\ outcome' = FileReadFailed
           /\ ispLog' = <<>>
           /\ pc' = "done"
      /\ (Savers /\ ~outputWritable) =>
           /\ outcome' = FileOpenFailed
           /\ outputFiles' = <<>>
           /\ pc' = "done"
      /\ pc # "done" ]_vars

\* The configuration was read and a wrapper ran, then a text file could not
\* be opened.
C17_Witness ==
  /\ pc = "done"
  /\ outcome = FileOpenFailed
  /\ ispLog # <<>>

\* A loader found the configuration unreadable.
C17_WitnessUnreadable ==
  /\ pc = "done"
  /\ outcome = FileReadFailed
  /\ ~configReadable

-----------------------------------------------------------------------------
(* detectColorChart from the filtered contours on: removeContourOutliers   *)
(* and sortPatches on any list of candidates                               *)

\* Centroids on a lattice of half pixels: a row MaxDistance wide, and one
\* point of the row below it.
CentroidMenu == ((0..MaxDistance) \X {0}) \cup { <<0, 1>> }

\* A candidate list: the k-th patch has the centroid cs[k] and a mask of its
\* own. Two contours can have the same centre.
CandidateList(cs) ==
  [k \in DOMAIN cs |->
     NewPatch(cs[k], [left |-> k, top |-> 0, width |-> 1, height |-> 1])]

InitClean ==
  /\ pc = "outliers"
  /\ imageSize = GridImageSize
  /\ numSquaresW \in 1..MaxCandidates
  /\ numSquaresH = 1
  /\ stats = <<>>
  /\ label = 0
  /\ contours = <<>>
  /\ isChartFound = TRUE
  /\ \E n \in 1..MaxCandidates :
       \E cs \in [1..n -> CentroidMenu] : colorPatchList = CandidateList(cs)
  /\ outcome = [kind |-> "none"]
  /\ SortIdle /\ MedIdle /\ RspIdle /\ ErrIdle /\ IspIdle /\ DebugIdle /\ ExtIdle

NextClean ==
  \/ RemoveOutliers
  \/ SortRow
  \/ SortReorder
  \/ DetectReturn

SpecClean == InitClean /\ [][NextClean]_vars

-----------------------------------------------------------------------------
(* Claims about removeContourOutliers *)

\* The patches whose minimum distance to another patch is at most twice the
\* median of the minimum distances; a patch alone has no other patch.
AtMostTwiceMedian(list) ==
  { i \in DOMAIN list :
      Len(list) > 1 => MinDistanceSq(list, i) <= 4 * MinDistanceMedianSq(list) }

\* The patches of the list at the positions S, in the order of the list.
RECURSIVE PatchesAt(_, _, _)
PatchesAt(list, S, i) ==
  IF i > Len(list) THEN <<>>
  ELSE (IF i \in S THEN <<list[i]>> ELSE <<>>) \o PatchesAt(list, S, i + 1)

\* C18: removeContourOutliers returns, in the order of its input and with
\* centroid and mask as they were, exactly the patches whose minimum distance
\* to another patch is at or below twice the median of the minimum distances;
\* the patches above twice the median are the ones it discards.
C18_KeepsUpToTwiceMedian ==
  pc # "outliers" =>
    colorPatchListClean =
      PatchesAt(colorPatchList, AtMostTwiceMedian(colorPatchList), 1)

-----------------------------------------------------------------------------
(* Claims about sortPatches on any list *)

DistinctCentroids(list) ==
  \A i, j \in DOMAIN list : i # j => list[i].centroid # list[j].centroid

TimesIn(list, patch) == Cardinality({ k \in DOMAIN list : list[k] = patch })

\* C20: when the centroids of the list handed to sortPatches are pairwise
\* distinct and numSquaresW is at least 1, the list sortPatches returns has
\* the length of its input and holds every patch of the input exactly once,
\* with the centroid and the mask it had.
C20_SortedIsPermutation ==
  (pc \in {"sort_done", "done"} /\ DistinctCentroids(colorPatchListClean)
     /\ numSquaresW >= 1) =>
    /\ Len(colorPatchListSorted) = Len(colorPatchListClean)
    /\ \A i \in DOMAIN colorPatchListClean :
         TimesIn(colorPatchListSorted, colorPatchListClean[i]) = 1

\* Three patches in rows of two: the last row is short, and the patches come
\* back in another order.
C20_Witness ==
  /\ pc = "sort_done"
  /\ DistinctCentroids(colorPatchListClean)
  /\ Len(colorPatchListClean) = 3
  /\ numSquaresW = 2
  /\ colorPatchListSorted # colorPatchListClean

-----------------------------------------------------------------------------
(* Claims about the contour filter of detectColorChart *)

\* The conditions on a contour, on the values minAreaRect and moments give:
\* area within 0.01% and 0.45% of the image, four vertices, convex, and the
\* longer side of the rectangle at most 1.2 times the shorter one.
IsSquarePatch(c) ==
  /\ 10000 * c.m00x10 >= 10 * imSize
  /\ 10000 * c.m00x10 <= 450 * imSize
  /\ c.size = 4
  /\ c.convex
  /\ 10 * Max2(c.width10, c.height10) <= 12 * Min2(c.width10, c.height10)

\* C19: a contour becomes a patch only if its area is within 0.01% and 0.45%
\* of the image area, it has exactly 4 vertices, it is convex and the aspect
\* ratio of its minimal rotated bounding rectangle is at most 1.2.
C19_OnlySquareContoursKept ==
  pc = "outliers" =>
    \A i \in DOMAIN contours :
      (\E k \in DOMAIN colorPatchList : colorPatchList[k] = PatchOf(contours[i]))
        => IsSquarePatch(contours[i])

-----------------------------------------------------------------------------
(* Claims about getMacBethGrays *)

\* The first components of the last k entries of the table, the last entry
\* first.
LastReversed(table, k) == [j \in 1..k |-> table[Len(table) - j + 1][1]]

\* C21: getMacBethGrays returns exactly 5 values, the first components of the
\* last 5 entries of the reference table, the last entry first, which is from
\* the darkest to the brightest.
C21_FiveGraysReversed ==
  (pc = "done" /\ colorResponse # <<>>) =>
    LET grays == getMacBethGrays(rgbLinearMacbeth)
    IN /\ Len(grays) = 5
       /\ grays = LastReversed(rgbLinearMacbeth, 5)
       /\ \A j \in 1..(Len(grays) - 1) : grays[j] <= grays[j + 1]

-----------------------------------------------------------------------------
(* The measurement passes of a calibration run: computeRGBResponse on the  *)
(* raw image, on the images between the stages and on the final image, all *)
(* on the patch list detectColorChart returned                             *)

\* Gray levels of the five patches in the images of a run.
PassRamps == { <<4, 3, 2, 1, 0>>, <<3, 3, 2, 2, 1>>, <<4, 4, 4, 4, 4>> }

\* The caller measures once more, on another image, raw or demosaiced.
NextMeasurement ==
  /\ pc = "done"
  /\ outcome.kind = "returned"
  /\ measured + 1 < MaxPasses
  /\ measured' = measured + 1
  /\ isRaw' \in BOOLEAN
  /\ \E lv \in PassRamps : image' = ChartImage(lv, isRaw')
  /\ pc' = "medians"
  /\ UNCHANGED <<sortVars, detVars, configReadable, mask, rspVars, errVars,
                 ispVars, debugVars, blackVars, ccmVars, parVars, fileVars>>

InitPasses ==
  /\ pc = "medians"
  /\ configReadable \in BOOLEAN
  /\ isRaw \in BOOLEAN
  /\ rgbLinearMacbeth \in ReferenceCharts
  /\ \E narrow \in BOOLEAN : colorPatches = ChartPatches(5, narrow)
  /\ \E lv \in PassRamps : image = ChartImage(lv, isRaw)
  /\ mask = {}
  /\ colorResponse = <<>>
  /\ imageSize = [width |-> image.cols, height |-> image.rows]
  /\ numSquaresW = 5
  /\ numSquaresH = 1
  /\ stats = <<>>
  /\ label = 0
  /\ contours = <<>>
  /\ isChartFound = TRUE
  /\ colorPatchList = colorPatches
  /\ outcome = [kind |-> "returned", patches |-> colorPatchList]
  /\ SortIdle /\ ErrIdle /\ IspIdle /\ DebugIdle /\ ExtIdle

NextPasses ==
  \/ ComputeRGBMedians
  \/ FitResponse
  \/ NextMeasurement

SpecPasses == InitPasses /\ [][NextPasses]_vars

-----------------------------------------------------------------------------
(* Claims about the patch list over the measurement passes *)

\* C22: computeRGBMedians and computeRGBResponse change only the rgbMedian of
\* the patches: after any number of measurement passes on raw and demosaiced
\* images the list has the length and the order detectColorChart gave it, and
\* every patch has the centroid and the mask it had then.
C22_OnlyMediansChange ==
  /\ Len(colorPatches) = Len(colorPatchList)
  /\ \A i \in DOMAIN colorPatches :
       /\ colorPatches[i].centroid = colorPatchList[i].centroid
       /\ colorPatches[i].mask = colorPatchList[i].mask

\* Three passes are done, the last on a demosaiced image, and the medians are
\* no longer the ones the list came with.
C22_Witness ==
  /\ pc = "done"
  /\ outcome.kind = "returned"
  /\ measured = 2
  /\ ~isRaw
  /\ \E i \in DOMAIN colorPatches :
       colorPatches[i].rgbMedian # colorPatchList[i].rgbMedian

-----------------------------------------------------------------------------
(* Claims about the row loop of sortPatches *)

CeilDiv(a, b) == (a + b - 1) \div b

\* The elements of a sequence, with their multiplicities.
Multiset(seq) ==
  [v \in { seq[k] : k \in DOMAIN seq } |->
     Cardinality({ k \in DOMAIN seq : seq[k] = v })]

\* C23: with n centroids and numSquaresW >= 1 the row loop of sortPatches ends
\* after exactly ceil(n / numSquaresW) iterations: every iteration moves
\* min(numSquaresW, remaining) centroids from the remaining ones to the
\* output, so every row before the last is full, the remaining ones get fewer
\* each time, and the loop ends when none is left.
C23_RowLoopTerminates ==
  [][ /\ SortRow =>
           LET n == Len(colorPatchListClean)
               m == Min2(numSquaresW, Len(centroids))
           IN /\ m >= 1
              /\ Len(centroids') = Len(centroids) - m
              /\ Len(centroidsSorted') = Len(centroidsSorted) + m
              /\ SubSeq(centroidsSorted', 1, Len(centroidsSorted)) = centroidsSorted
              /\ Multiset(centroidsSorted' \o centroids') =
                   Multiset(centroidsSorted \o centroids)
              /\ Len(centroidsSorted) % numSquaresW = 0
              /\ Len(centroidsSorted) \div numSquaresW < CeilDiv(n, numSquaresW)
      /\ SortReorder =>
           LET n == Len(colorPatchListClean)
           IN /\ centroids = <<>>
              /\ Len(centroidsSorted) = n
              /\ CeilDiv(Len(centroidsSorted), numSquaresW) =
                   CeilDiv(n, numSquaresW) ]_vars

\* Three centroids in rows of two: the loop has ended after two iterations,
\* the second row being short.
C23_Witness ==
  /\ pc = "sort_loop"
  /\ numSquaresW = 2
  /\ centroids = <<>>
  /\ Len(centroidsSorted) = 3

-----------------------------------------------------------------------------
(* Claims about the list detectColorChart hands to the later stages *)

\* computeRGBResponse reads colorPatches[iStart - kDarkIdx] and
\* colorPatches[iStart - kBrightIdx] of a list of n patches.
ResponseReadsInBounds(n) ==
  /\ DarkPatchIndex(n) \in 0..(n - 1)
  /\ BrightPatchIndex(n) \in 0..(n - 1)

\* computeCCM and computeColorPatchErrors read rgbLinearMacbeth[i] for every
\* patch i of a list of n patches; the table has 24 entries.
ChartReadsInBounds(n) == \A i \in 0..(n - 1) : i < 24

\* C24: for every list detectColorChart returns, the later stages read the
\* patches n - 2 and n - 5 and the chart entries 0 .. n - 1 in bounds: the
\* list has between 5 and 24 patches.
C24_LaterReadsInBounds ==
  (pc = "done" /\ outcome.kind = "returned") =>
    /\ ResponseReadsInBounds(Len(outcome.patches))
    /\ ChartReadsInBounds(Len(outcome.patches))
    /\ Len(outcome.patches) \in 5..24

-----------------------------------------------------------------------------
(* Claims about findBlackLevel without a surviving contour *)

\* findBlackLevel has filtered the contours and none has passed.
NoContourSurvived ==
  /\ Len(maskThresholds) = 3
  /\ pc \in {"black_medians", "done"}
  /\ contoursFiltered = <<>>

\* C25: when no contour passes the filter of findBlackLevel, the function
\* returns no black level: it ends with an error, and blackLevels[minNormIdx]
\* is not read on the empty list.
C25_NoSurvivorIsAnError ==
  (NoContourSurvived /\ pc = "done") => outcome.kind = "exception"

-----------------------------------------------------------------------------
(* Claims about what removeContourOutliers keeps *)

\* The patches whose minimum distance is at most the median one.
AtMostMedian(list) ==
  { i \in DOMAIN list : MinDistanceSq(list, i) <= MinDistanceMedianSq(list) }

\* C26: of 2 or more patches with pairwise distinct centroids,
\* removeContourOutliers keeps every patch whose minimum distance is at most
\* the median minimum distance: at least floor(n / 2) + 1 patches, so its
\* output is not empty.
C26_KeepsMoreThanHalf ==
  (pc # "outliers" /\ Len(colorPatchList) >= 2
     /\ DistinctCentroids(colorPatchList)) =>
    /\ \A i \in AtMostMedian(colorPatchList) :
         TimesIn(colorPatchListClean, colorPatchList[i]) = 1
    /\ Len(colorPatchListClean) >= Len(colorPatchList) \div 2 + 1
    /\ colorPatchListClean # <<>>

\* Of three patches with distinct centroids the one far away is discarded
\* and floor(3 / 2) + 1 = 2 are kept.
C26_Witness ==
  /\ pc # "outliers"
  /\ Len(colorPatchList) = 3
  /\ DistinctCentroids(colorPatchList)
  /\ Len(colorPatchListClean) = 2

====
